---------------------------- MODULE Spec2Model ----------------------------
(***************************************************************************)
(* Turn engine of the extended Uno game (uno_game/src): Card, Deck,        *)
(* Player and UnoGame.play_turn / UnoGame.player_cannot_play_action.       *)
(*                                                                         *)
(* Python lists are sequences; Python index i is position i + 1.           *)
(* Python dicts are records whose DOMAIN is the set of keys present.       *)
(* random.shuffle / random.randint / random.choice are nondeterministic:   *)
(* an operator that uses them returns the SET of its possible outcomes.    *)
(***************************************************************************)
EXTENDS Integers, Sequences, FiniteSets, TLC

\* ------------------------------------------------------------------------
\* card.py
\* ------------------------------------------------------------------------
RED == "RED"
YELLOW == "YELLOW"
GREEN == "GREEN"
BLUE == "BLUE"
WILD == "WILD"
\* Python None where a Color is expected
NoColor == "None"

Color == {RED, YELLOW, GREEN, BLUE, WILD}
RealColors == {RED, YELLOW, GREEN, BLUE}

ZERO == 0
ONE == 1
TWO == 2
THREE == 3
FOUR == 4
FIVE == 5
SIX == 6
SEVEN == 7
EIGHT == 8
NINE == 9
DRAW_TWO == 10
SKIP == 11
REVERSE == 12
RANK_WILD == 13
WILD_DRAW_FOUR == 14

Rank == 0..14

\* Card.__init__ once the color/rank check has passed
Card(color, rank) == [color |-> color, rank |-> rank]

\* Python None where a Card is expected
NoCard == [color |-> NoColor, rank |-> -1]

is_wild(card) == card.rank \in {RANK_WILD, WILD_DRAW_FOUR}

\* what a Python call that returns a bool, or raises ValueError, ends with
True == "True"
False == "False"
ValueError == "ValueError"
Bool(b) == IF b THEN True ELSE False

\* Card.matches
\* a match that looks at colors only
matches_by_color(self, other_card, current_color_chosen_for_wild) ==
    IF is_wild(self) THEN True
    ELSE IF is_wild(other_card)
         THEN IF current_color_chosen_for_wild = NoColor
              THEN ValueError
              ELSE Bool(self.color = current_color_chosen_for_wild)
         ELSE Bool(self.color = other_card.color)

matches(self, other_card, current_color_chosen_for_wild) ==
    IF is_wild(self) THEN True
    ELSE IF is_wild(other_card)
         THEN IF current_color_chosen_for_wild = NoColor
              THEN ValueError
              ELSE Bool(self.color = current_color_chosen_for_wild)
         ELSE Bool(self.color = other_card.color \/ self.rank = other_card.rank)

\* ------------------------------------------------------------------------
\* Sequence helpers (list.pop(i), list.remove(x), random.shuffle)
\* ------------------------------------------------------------------------
Last(s) == s[Len(s)]
Front(s) == SubSeq(s, 1, Len(s) - 1)
\* list.pop(i) for a valid Python index i: the list without that element
PopAt(s, i) == SubSeq(s, 1, i) \o SubSeq(s, i + 2, Len(s))
\* s[i] for a valid Python index i
At(s, i) == s[i + 1]

Reverse(s) == [i \in 1..Len(s) |-> s[Len(s) + 1 - i]]

\* list.remove(x): drops the first element equal to x (Card.__eq__)
RemoveFirst(s, x) ==
    IF \E i \in DOMAIN s : s[i] = x
    THEN LET first == CHOOSE i \in DOMAIN s :
                         s[i] = x /\ \A j \in 1..(i - 1) : s[j] # x
         IN  PopAt(s, first - 1)
    ELSE s

RECURSIVE RemoveEach(_, _)
RemoveEach(s, xs) ==
    IF xs = <<>> THEN s ELSE RemoveEach(RemoveFirst(s, Head(xs)), Tail(xs))

\* random.shuffle: every arrangement of the list
RECURSIVE shuffle(_)
shuffle(s) ==
    IF Len(s) <= 1 THEN {s}
    ELSE UNION {{<<s[i]>> \o t : t \in shuffle(PopAt(s, i - 1))} : i \in DOMAIN s}

\* ------------------------------------------------------------------------
\* deck.py
\* ------------------------------------------------------------------------
colors == <<RED, YELLOW, GREEN, BLUE>>

\* the cards create_standard_deck appends for one color
ColorCards(color) ==
    <<Card(color, ZERO)>>
    \o [k \in 1..18 |-> Card(color, (k + 1) \div 2)]
    \o [k \in 1..6 |-> Card(color, DRAW_TWO + ((k - 1) \div 2))]

WildCards == [k \in 1..8 |-> IF k % 2 = 1 THEN Card(WILD, RANK_WILD)
                                           ELSE Card(WILD, WILD_DRAW_FOUR)]

\* a deck with two 0 cards of each color
deck_with_two_zeros ==
    <<Card(RED, ZERO)>> \o ColorCards(RED) \o <<Card(YELLOW, ZERO)>> \o ColorCards(YELLOW)
    \o <<Card(GREEN, ZERO)>> \o ColorCards(GREEN) \o <<Card(BLUE, ZERO)>>
    \o ColorCards(BLUE) \o WildCards

create_standard_deck ==
    ColorCards(colors[1]) \o ColorCards(colors[2]) \o ColorCards(colors[3])
    \o ColorCards(colors[4]) \o WildCards

\* Deck.draw_card on a non-empty draw pile: cards.pop()
draw_card(deck) == [card |-> Last(deck.cards),
                    deck |-> [deck EXCEPT !.cards = Front(deck.cards)]]

add_to_discard(deck, card) ==
    [deck EXCEPT !.discard_pile = Append(deck.discard_pile, card)]

get_top_discard_card(deck) ==
    IF deck.discard_pile = <<>> THEN NoCard ELSE Last(deck.discard_pile)

is_empty(deck) == deck.cards = <<>>

needs_reshuffle(deck) == is_empty(deck) /\ deck.discard_pile # <<>>

\* a reshuffle that forgets the cards under the top of the discard pile
reshuffle_losing_cards(deck, keep_top_card) ==
    IF deck.discard_pile = <<>>
    THEN {[deck |-> deck, returned |-> FALSE]}
    ELSE {[deck |-> [cards |-> deck.cards,
                     discard_pile |-> <<Last(deck.discard_pile)>>],
           returned |-> TRUE]}

\* a reshuffle that takes the top of the discard pile along whatever is asked
reshuffle_taking_top(deck, keep_top_card) ==
    IF deck.discard_pile = <<>>
    THEN {[deck |-> deck, returned |-> FALSE]}
    ELSE {[deck |-> [cards |-> c, discard_pile |-> <<>>], returned |-> TRUE] :
             c \in shuffle(deck.cards \o deck.discard_pile)}

\* Deck.reshuffle_discard_pile_into_deck: the set of [deck, returned]
reshuffle_discard_pile_into_deck(deck, keep_top_card) ==
    IF deck.discard_pile = <<>>
    THEN {[deck |-> deck, returned |-> FALSE]}
    ELSE LET rest == IF keep_top_card THEN Front(deck.discard_pile)
                                      ELSE deck.discard_pile
             kept == IF keep_top_card THEN <<Last(deck.discard_pile)>> ELSE <<>>
         IN  {[deck |-> [cards |-> c, discard_pile |-> kept], returned |-> TRUE] :
                 c \in shuffle(deck.cards \o rest)}

\* ------------------------------------------------------------------------
\* player.py
\* ------------------------------------------------------------------------
\* Player.__init__
Player == [hand |-> <<>>, coins |-> 0, shuffle_counters |-> 0, lunar_mana |-> 0,
           solar_mana |-> 0, get_out_of_jail_yellow_4 |-> NoCard]

add_card_to_hand(player, card) == [player EXCEPT !.hand = Append(@, card)]

remove_card_from_hand(player, card_to_remove) ==
    [player EXCEPT !.hand = RemoveFirst(@, card_to_remove)]

hand_size(player) == Len(player.hand)

\* a hand that counts as empty with one card left
hand_nearly_empty(player) == Len(player.hand) <= 1

is_hand_empty(player) == player.hand = <<>>

\* Player.play_card: [player, card], card = NoCard for an index out of range
play_card(player, card_index) ==
    IF 0 <= card_index /\ card_index < Len(player.hand)
    THEN [player |-> [player EXCEPT !.hand = PopAt(@, card_index)],
          card |-> At(player.hand, card_index)]
    ELSE [player |-> player, card |-> NoCard]

\* a check that is content with any card in the hand
holds_any_card(player, top_discard_card, current_wild_color) == player.hand # <<>>

has_playable_card(player, top_discard_card, current_wild_color) ==
    \E i \in DOMAIN player.hand :
        matches(player.hand[i], top_discard_card, current_wild_color) = True

has_get_out_of_jail_card(player) == player.get_out_of_jail_yellow_4 # NoCard

\* a storage that takes any Yellow card
store_any_yellow(player, card) ==
    IF card.color = YELLOW /\ player.get_out_of_jail_yellow_4 = NoCard
    THEN [player |-> [player EXCEPT !.get_out_of_jail_yellow_4 = card], returned |-> TRUE]
    ELSE [player |-> player, returned |-> FALSE]

\* Player.store_yellow_4_get_out_of_jail: [player, returned]
store_yellow_4_get_out_of_jail(player, card) ==
    IF card.color = YELLOW /\ card.rank = FOUR /\ player.get_out_of_jail_yellow_4 = NoCard
    THEN [player |-> [player EXCEPT !.get_out_of_jail_yellow_4 = card], returned |-> TRUE]
    ELSE [player |-> player, returned |-> FALSE]

\* Player.use_get_out_of_jail_card: [player, returned]
use_get_out_of_jail_card(player) ==
    [player |-> [player EXCEPT !.get_out_of_jail_yellow_4 = NoCard],
     returned |-> player.get_out_of_jail_yellow_4]

\* ------------------------------------------------------------------------
\* actions.py
\* ------------------------------------------------------------------------
REVERSE_DIRECTION == "REVERSE_DIRECTION"
SKIP_PLAYER == "SKIP_PLAYER"
DRAW_CARDS == "DRAW_CARDS"
CHOOSE_COLOR == "CHOOSE_COLOR"
SWAP_CARD_RIGHT == "SWAP_CARD_RIGHT"
SWAP_CARD_ANY == "SWAP_CARD_ANY"
DISCARD_FROM_PLAYER_HAND == "DISCARD_FROM_PLAYER_HAND"
PLAYER_DRAWS_FOUR_UNLESS_LAST == "PLAYER_DRAWS_FOUR_UNLESS_LAST"
PLAY_ANY_AND_DRAW_ONE == "PLAY_ANY_AND_DRAW_ONE"
TAKE_RANDOM_FROM_PREVIOUS == "TAKE_RANDOM_FROM_PREVIOUS"
PLACE_TOP_DRAW_PILE_CARD == "PLACE_TOP_DRAW_PILE_CARD"
GAME_WIN == "GAME_WIN"
NOP == "NOP"
\* Python None where a GameAction / ActionType is expected
NoAction == "None"

\* GameAction(type): value and target_player_offset stay None (absent keys)
GameAction(type) == [type |-> type]
\* GameAction(type, value=v)
GameActionV(type, v) == [type |-> type, value |-> v]
\* a GameAction that never carries a skip
action_without_skip(type, o) ==
    [type |-> IF type = SKIP_PLAYER THEN NOP ELSE type, target_player_offset |-> o]
\* GameAction(type, target_player_offset=o)
GameActionO(type, o) == [type |-> type, target_player_offset |-> o]
\* GameAction(type, value=v, target_player_offset=o)
GameActionVO(type, v, o) == [type |-> type, value |-> v, target_player_offset |-> o]

\* a dict has the key (dict.get(key) is not None)
Has(d, key) == key \in DOMAIN d
\* an empty dict, also what an absent action_input is read as
EmptyDict == [k \in {} |-> k]

\* ------------------------------------------------------------------------
\* game.py: helpers
\* ------------------------------------------------------------------------
NumPlayers(g) == Cardinality(DOMAIN g.players)

\* UnoGame._get_player_at_offset: the index of the player it returns
\* an offset counted the wrong way round
player_at_opposite_offset(g, base_player_idx, offset) ==
    (base_player_idx - offset + NumPlayers(g)) % NumPlayers(g)

_get_player_at_offset(g, base_player_idx, offset) ==
    (base_player_idx + offset + NumPlayers(g)) % NumPlayers(g)

\* UnoGame._advance_turn_marker(steps=1)
_advance_turn_marker(g) ==
    [g EXCEPT !.current_player_index =
        (g.current_player_index + g.play_direction + NumPlayers(g)) % NumPlayers(g)]

\* an empty draw pile refilled without asking for a shuffle token
reshuffle_for_free(g, drawing_player) ==
    IF needs_reshuffle(g.deck)
    THEN {[g |-> [g EXCEPT !.deck = r.deck], returned |-> ~is_empty(r.deck)] :
             r \in reshuffle_discard_pile_into_deck(g.deck, TRUE)}
    ELSE IF is_empty(g.deck)
         THEN {[g |-> g, returned |-> FALSE]}
         ELSE {[g |-> g, returned |-> TRUE]}

\* an empty draw pile refilled with the whole discard pile, its top card included
reshuffle_whole_discard(g, drawing_player) ==
    IF needs_reshuffle(g.deck)
    THEN IF g.players[drawing_player].shuffle_counters > 0
         THEN LET g1 == [g EXCEPT !.players[drawing_player].shuffle_counters = @ - 1]
              IN  {[g |-> [g1 EXCEPT !.deck = r.deck],
                    returned |-> ~is_empty(r.deck)] :
                      r \in reshuffle_discard_pile_into_deck(g1.deck, FALSE)}
         ELSE {[g |-> g, returned |-> FALSE]}
    ELSE IF is_empty(g.deck)
         THEN {[g |-> g, returned |-> FALSE]}
         ELSE {[g |-> g, returned |-> TRUE]}

\* an empty draw pile refilled for a shuffle token the player may not have
reshuffle_on_credit(g, drawing_player) ==
    IF needs_reshuffle(g.deck)
    THEN LET g1 == [g EXCEPT !.players[drawing_player].shuffle_counters = @ - 1]
         IN  {[g |-> [g1 EXCEPT !.deck = r.deck],
               returned |-> ~is_empty(r.deck)] :
                 r \in reshuffle_discard_pile_into_deck(g1.deck, TRUE)}
    ELSE IF is_empty(g.deck)
         THEN {[g |-> g, returned |-> FALSE]}
         ELSE {[g |-> g, returned |-> TRUE]}

\* UnoGame._handle_draw_pile_empty: the set of [g, returned]
_handle_draw_pile_empty(g, drawing_player) ==
    IF needs_reshuffle(g.deck)
    THEN IF g.players[drawing_player].shuffle_counters > 0
         THEN LET g1 == [g EXCEPT !.players[drawing_player].shuffle_counters = @ - 1]
              IN  {[g |-> [g1 EXCEPT !.deck = r.deck],
                    returned |-> ~is_empty(r.deck)] :
                      r \in reshuffle_discard_pile_into_deck(g1.deck, TRUE)}
         ELSE {[g |-> g, returned |-> FALSE]}
    ELSE IF is_empty(g.deck)
         THEN {[g |-> g, returned |-> FALSE]}
         ELSE {[g |-> g, returned |-> TRUE]}

\* UnoGame.player_draws_card, the loop from its k-th iteration on:
\* the set of [g, drawn]
RECURSIVE player_draws_card_loop(_, _, _, _)
player_draws_card_loop(g, player, count, drawn_cards) ==
    IF count = 0 THEN {[g |-> g, drawn |-> drawn_cards]}
    ELSE UNION {
        IF ~h.returned THEN {[g |-> h.g, drawn |-> drawn_cards]}
        ELSE LET d == draw_card(h.g.deck)
                 g2 == [h.g EXCEPT !.deck = d.deck,
                                   !.players[player] = add_card_to_hand(@, d.card)]
             IN  player_draws_card_loop(g2, player, count - 1, Append(drawn_cards, d.card))
        : h \in _handle_draw_pile_empty(g, player)}

\* a draw that takes one card more than asked
draws_one_more(g, player, count) == player_draws_card_loop(g, player, count + 1, <<>>)

\* UnoGame.player_draws_card: the set of [g, drawn]
player_draws_card(g, player, count) == player_draws_card_loop(g, player, count, <<>>)

\* what _get_card_actions returns, or the TypeError it raises
Actions(list) == [raised |-> FALSE, actions |-> list]
RaisesTypeError == [raised |-> TRUE, actions |-> <<>>]

\* UnoGame._get_card_actions: the list of GameAction. For a Wild or a Wild Draw
\* Four, GameAction(CHOOSE_COLOR, value=..., message_override=...) is given a
\* keyword GameAction.__init__ does not have and raises TypeError
_get_card_actions(g, card, player_idx, chosen_color_for_wild) ==
    IF card.rank = SEVEN THEN Actions(<<GameAction(SWAP_CARD_RIGHT)>>)
    ELSE IF card.rank = ZERO THEN Actions(<<GameAction(SWAP_CARD_ANY)>>)
    ELSE IF card.color = BLUE /\ card.rank = THREE
    THEN Actions(<<GameActionVO(DISCARD_FROM_PLAYER_HAND,
                                [count |-> 2, from_player_idx |-> player_idx],
                                -g.play_direction)>>)
    ELSE IF card.color = RED /\ card.rank = EIGHT
    THEN Actions(<<GameActionO(PLAYER_DRAWS_FOUR_UNLESS_LAST, 0)>>)
    ELSE IF card.rank = SIX THEN Actions(<<GameActionO(PLAY_ANY_AND_DRAW_ONE, 0)>>)
    ELSE IF card.color = GREEN /\ card.rank = FIVE
    THEN Actions(<<GameActionO(TAKE_RANDOM_FROM_PREVIOUS, -g.play_direction)>>)
    ELSE IF card.rank = NINE THEN Actions(<<GameAction(PLACE_TOP_DRAW_PILE_CARD)>>)
    ELSE IF is_wild(card) THEN RaisesTypeError
    ELSE IF card.rank = DRAW_TWO
    THEN Actions(<<GameActionVO(DRAW_CARDS, 2, 1), GameActionO(SKIP_PLAYER, 1)>>)
    ELSE IF card.rank = SKIP THEN Actions(<<GameActionO(SKIP_PLAYER, 1)>>)
    ELSE IF card.rank = REVERSE
    THEN Actions(<<GameAction(REVERSE_DIRECTION)>>
                 \o (IF NumPlayers(g) = 2 THEN <<GameActionO(SKIP_PLAYER, 0)>> ELSE <<>>))
    ELSE Actions(<<GameAction(NOP)>>)

\* an award that pays a coin for a card of any color
award_coin_for_any_color(g, player, card) ==
    IF is_wild(card) THEN g ELSE [g EXCEPT !.players[player].coins = @ + 1]

\* UnoGame._award_color_counters
_award_color_counters(g, player, card) ==
    IF is_wild(card) THEN g
    ELSE IF card.color = RED THEN [g EXCEPT !.players[player].solar_mana = @ + 1]
    ELSE IF card.color = YELLOW THEN [g EXCEPT !.players[player].coins = @ + 1]
    ELSE IF card.color = GREEN THEN [g EXCEPT !.players[player].shuffle_counters = @ + 1]
    ELSE IF card.color = BLUE THEN [g EXCEPT !.players[player].lunar_mana = @ + 1]
    ELSE g

\* ------------------------------------------------------------------------
\* game.py: play_turn
\* ------------------------------------------------------------------------
\* what a call ends with: the game it leaves, the returned success flag and
\* next_action_prompt, and whether it raised instead of returning
NoError == "None"
TypeError == "TypeError"
Return(g, success, prompt) ==
    [g |-> g, success |-> success, raised |-> NoError, prompt |-> prompt]
Raise(g, error) == [g |-> g, success |-> FALSE, raised |-> error, prompt |-> NoAction]

\* action_input.get(...) if action_input else None
ActionInput(args) == IF Has(args, "action_input") THEN args.action_input ELSE EmptyDict
\* the chosen_color_for_wild argument
ChosenColorForWild(args) ==
    IF Has(args, "chosen_color_for_wild") THEN args.chosen_color_for_wild ELSE NoColor

\* the pending action dropped with its context left behind
clear_action_only(g) == [g EXCEPT !.pending_action = NoAction]

\* pending_action = None; action_data.clear()
ClearPending(g) == [g EXCEPT !.pending_action = NoAction, !.action_data = EmptyDict]

\* list.sort(reverse=True)
RECURSIVE InsertDesc(_, _)
InsertDesc(s, x) ==
    IF s = <<>> THEN <<x>>
    ELSE IF x >= Head(s) THEN <<x>> \o s
    ELSE <<Head(s)>> \o InsertDesc(Tail(s), x)
RECURSIVE SortDesc(_)
SortDesc(s) == IF s = <<>> THEN <<>> ELSE InsertDesc(SortDesc(Tail(s)), Head(s))

SeqToSet(s) == {s[i] : i \in DOMAIN s}

\* an exchange that gives a card and takes none
give_without_taking(g, actor, other, card_to_give_idx, card_to_take_idx) ==
    LET given == play_card(g.players[actor], card_to_give_idx)
        g1 == [g EXCEPT !.players[actor] = given.player]
    IN  [g1 EXCEPT !.players[other] = add_card_to_hand(@, given.card)]

\* the exchange of the two swap resolvers: play_card on both hands, then
\* add_card_to_hand on both
SwapCards(g, actor, other, card_to_give_idx, card_to_take_idx) ==
    LET given == play_card(g.players[actor], card_to_give_idx)
        g1 == [g EXCEPT !.players[actor] = given.player]
        taken == play_card(g1.players[other], card_to_take_idx)
        g2 == [g1 EXCEPT !.players[other] = taken.player]
        g3 == [g2 EXCEPT !.players[actor] = add_card_to_hand(@, taken.card)]
    IN  [g3 EXCEPT !.players[other] = add_card_to_hand(@, given.card)]

\* give/take validation and exchange shared by SWAP_CARD_RIGHT and stage 2 of
\* SWAP_CARD_ANY, then clear, reset the turn to the initiator and advance
ResolveSwap(g, actor, other, original_initiator_idx, action_input, type) ==
    IF ~Has(action_input, "card_to_give_idx") \/ ~Has(action_input, "card_to_take_idx")
    THEN {Return(g, FALSE, type)}
    ELSE IF ~(0 <= action_input.card_to_give_idx
              /\ action_input.card_to_give_idx < hand_size(g.players[actor]))
    THEN {Return(g, FALSE, type)}
    ELSE IF ~is_hand_empty(g.players[other])
            /\ ~(0 <= action_input.card_to_take_idx
                 /\ action_input.card_to_take_idx < hand_size(g.players[other]))
    THEN {Return(g, FALSE, type)}
    ELSE LET g1 == IF is_hand_empty(g.players[other]) THEN g
                   ELSE SwapCards(g, actor, other, action_input.card_to_give_idx,
                                  action_input.card_to_take_idx)
             g2 == [ClearPending(g1) EXCEPT !.current_player_index = original_initiator_idx]
         IN  {Return(_advance_turn_marker(g2), TRUE, NoAction)}

\* SWAP_CARD_RIGHT (Rank 7) resolution
ResolveSwapCardRight(g, player, args, original_initiator_idx) ==
    IF player # original_initiator_idx
    THEN {Return(g, FALSE, SWAP_CARD_RIGHT)}
    ELSE ResolveSwap(g, player,
                     _get_player_at_offset(g, original_initiator_idx, g.play_direction),
                     original_initiator_idx, ActionInput(args), SWAP_CARD_RIGHT)

\* a SWAP_CARD_ANY resolution that lets the initiator name itself as target
swap_any_self_target(g, player, args, original_initiator_idx) ==
    LET action_input == ActionInput(args) IN
    IF player # original_initiator_idx
    THEN {Return(g, FALSE, SWAP_CARD_ANY)}
    ELSE IF ~Has(g.action_data, "target_player_idx")
    THEN IF \/ ~Has(action_input, "target_player_idx")
            \/ ~(0 <= action_input.target_player_idx
                 /\ action_input.target_player_idx < NumPlayers(g))
         THEN {Return(g, FALSE, SWAP_CARD_ANY)}
         ELSE {Return([g EXCEPT !.action_data =
                          [k \in DOMAIN g.action_data \cup {"target_player_idx"} |->
                              IF k = "target_player_idx"
                              THEN action_input.target_player_idx
                              ELSE g.action_data[k]]],
                      TRUE, SWAP_CARD_ANY)}
    ELSE ResolveSwap(g, player, g.action_data.target_player_idx,
                     original_initiator_idx, action_input, SWAP_CARD_ANY)

\* SWAP_CARD_ANY (Rank 0) resolution
ResolveSwapCardAny(g, player, args, original_initiator_idx) ==
    LET action_input == ActionInput(args) IN
    IF player # original_initiator_idx
    THEN {Return(g, FALSE, SWAP_CARD_ANY)}
    ELSE IF ~Has(g.action_data, "target_player_idx")
    THEN IF \/ ~Has(action_input, "target_player_idx")
            \/ ~(0 <= action_input.target_player_idx
                 /\ action_input.target_player_idx < NumPlayers(g))
            \/ action_input.target_player_idx = original_initiator_idx
         THEN {Return(g, FALSE, SWAP_CARD_ANY)}
         ELSE {Return([g EXCEPT !.action_data =
                          [k \in DOMAIN g.action_data \cup {"target_player_idx"} |->
                              IF k = "target_player_idx"
                              THEN action_input.target_player_idx
                              ELSE g.action_data[k]]],
                      TRUE, SWAP_CARD_ANY)}
    ELSE ResolveSwap(g, player, g.action_data.target_player_idx,
                     original_initiator_idx, action_input, SWAP_CARD_ANY)

\* the removal loop of the DISCARD_FROM_PLAYER_HAND resolver over the sorted
\* indices: [g, removed, valid]
RECURSIVE DiscardRemoveLoop(_, _, _, _)
DiscardRemoveLoop(g, victim, indices, removed) ==
    IF indices = <<>> THEN [g |-> g, removed |-> removed, valid |-> TRUE]
    ELSE IF ~(0 <= Head(indices) /\ Head(indices) < hand_size(g.players[victim]))
    THEN [g |-> g, removed |-> removed, valid |-> FALSE]
    ELSE LET r == play_card(g.players[victim], Head(indices))
         IN  DiscardRemoveLoop([g EXCEPT !.players[victim] = r.player], victim,
                               Tail(indices), Append(removed, r.card))

\* for c in cards: victim.add_card_to_hand(c)
RECURSIVE AddCardsToHand(_, _)
AddCardsToHand(player, cards) ==
    IF cards = <<>> THEN player
    ELSE AddCardsToHand(add_card_to_hand(player, Head(cards)), Tail(cards))

\* DISCARD_FROM_PLAYER_HAND (Blue 3) resolution
ResolveDiscardFromPlayerHand(g, player, args) ==
    IF ~Has(g.action_data, "chooser_idx") \/ ~Has(g.action_data, "victim_idx")
    THEN {Return(g, FALSE, NoAction)}
    ELSE
    LET chooser_idx == g.action_data.chooser_idx
        victim_idx == g.action_data.victim_idx
        action_input == ActionInput(args)
        num_to_discard == IF Has(g.action_data, "count") THEN g.action_data.count ELSE 2
        chosen == IF Has(action_input, "chosen_indices_from_victim")
                  THEN action_input.chosen_indices_from_victim ELSE <<>>
        hs == hand_size(g.players[victim_idx])
        actual == IF num_to_discard < hs THEN num_to_discard ELSE hs
    IN
    IF player # chooser_idx
    THEN {Return(g, FALSE, DISCARD_FROM_PLAYER_HAND)}
    ELSE IF Cardinality(SeqToSet(chosen)) # actual
    THEN {Return(g, FALSE, DISCARD_FROM_PLAYER_HAND)}
    ELSE LET l == DiscardRemoveLoop(g, victim_idx, SortDesc(chosen), <<>>) IN
         IF ~l.valid
         THEN {Return([l.g EXCEPT !.players[victim_idx] = AddCardsToHand(@, l.removed)],
                      FALSE, DISCARD_FROM_PLAYER_HAND)}
         ELSE LET g1 == [l.g EXCEPT !.deck.discard_pile = @ \o l.removed]
                  g2 == [ClearPending(g1) EXCEPT !.current_player_index = victim_idx]
              IN  {Return(_advance_turn_marker(g2), TRUE, NoAction)}

\* a DRAW_CARDS sub-action that makes the base player draw
draw_cards_for_base(g, base_idx, action) ==
    {r.g : r \in player_draws_card(g, base_idx, action.value)}

\* DRAW_CARDS sub-action: the player target_player_offset steps from base in the
\* play direction draws action.value cards; the set of games
DrawCardsAction(g, base_idx, action) ==
    LET target_offset == IF Has(action, "target_player_offset")
                         THEN action.target_player_offset ELSE 1
        victim == _get_player_at_offset(g, base_idx, g.play_direction * target_offset)
    IN  {r.g : r \in player_draws_card(g, victim, action.value)}

\* the sub-action loop of the PLAY_ANY_AND_DRAW_ONE resolver: the set of [g, skip]
RECURSIVE Rank6SubActions(_, _, _, _)
Rank6SubActions(g, initiator, actions, skip) ==
    IF actions = <<>> THEN {[g |-> g, skip |-> skip]}
    ELSE LET a == Head(actions) IN
         IF a.type = GAME_WIN
         THEN {[g |-> [g EXCEPT !.game_over = TRUE, !.winner = initiator], skip |-> skip]}
         ELSE IF a.type = DRAW_CARDS
         THEN UNION {Rank6SubActions(g1, initiator, Tail(actions), skip) :
                        g1 \in DrawCardsAction(g, initiator, a)}
         ELSE IF a.type = SKIP_PLAYER
         THEN Rank6SubActions(g, initiator, Tail(actions), TRUE)
         ELSE IF a.type = REVERSE_DIRECTION
         THEN Rank6SubActions([g EXCEPT !.play_direction = -@], initiator,
                              Tail(actions), skip)
         ELSE Rank6SubActions(g, initiator, Tail(actions), skip)

\* current_player_index = base; _advance_turn_marker(); once more when skip
AdvanceFrom(g, base_idx, skip) ==
    LET g1 == _advance_turn_marker([g EXCEPT !.current_player_index = base_idx])
    IN  IF skip THEN _advance_turn_marker(g1) ELSE g1

\* PLAY_ANY_AND_DRAW_ONE (Rank 6) resolution
ResolvePlayAnyAndDrawOne(g, player, args, original_initiator_idx) ==
    LET action_input == ActionInput(args)
        color_for_rank_6_wild ==
            IF Has(action_input, "chosen_color_for_rank_6_wild")
            THEN action_input.chosen_color_for_rank_6_wild ELSE NoColor
    IN
    IF player # original_initiator_idx
    THEN {Return(g, FALSE, PLAY_ANY_AND_DRAW_ONE)}
    ELSE IF ~Has(args, "card_index")
    THEN {Return(g, FALSE, PLAY_ANY_AND_DRAW_ONE)}
    ELSE IF ~(0 <= args.card_index /\ args.card_index < hand_size(g.players[player]))
    THEN {Return(g, FALSE, PLAY_ANY_AND_DRAW_ONE)}
    ELSE IF is_wild(At(g.players[player].hand, args.card_index))
            /\ color_for_rank_6_wild = NoColor
    THEN {Return([g EXCEPT !.action_data =
                     [k \in DOMAIN g.action_data
                            \cup {"is_for_rank_6_wild", "rank_6_card_idx_pending_color"} |->
                         IF k = "is_for_rank_6_wild" THEN TRUE
                         ELSE IF k = "rank_6_card_idx_pending_color" THEN args.card_index
                         ELSE g.action_data[k]],
                    !.pending_action = CHOOSE_COLOR],
                 TRUE, CHOOSE_COLOR)}
    ELSE
    LET played == play_card(g.players[player], args.card_index)
        g1 == [g EXCEPT !.players[player] = played.player,
                        !.deck = add_to_discard(@, played.card)]
        g2 == [g1 EXCEPT !.current_wild_color =
                  IF is_wild(played.card) THEN color_for_rank_6_wild ELSE NoColor]
        active_color == IF is_wild(played.card) THEN color_for_rank_6_wild
                        ELSE played.card.color
        g3 == _award_color_counters(g2, player, played.card)
        got == _get_card_actions(g3, played.card, player, active_color)
        card_actions == got.actions
        actions == IF is_hand_empty(g3.players[player])
                      /\ ~\E i \in DOMAIN card_actions : card_actions[i].type = GAME_WIN
                   THEN <<GameAction(GAME_WIN)>> ELSE card_actions
    IN  IF got.raised THEN {Raise(g3, TypeError)} ELSE
        UNION {
          IF l.g.game_over THEN {Return(l.g, TRUE, NoAction)}
          ELSE {Return(AdvanceFrom(ClearPending(d.g), original_initiator_idx, l.skip),
                       TRUE, NoAction) : d \in player_draws_card(l.g, player, 1)}
          : l \in Rank6SubActions(g3, player, actions, FALSE)}

\* the loop of the CHOOSE_COLOR resolver over the stashed remaining actions:
\* the set of [g, skip]
RECURSIVE RemainingAfterColor(_, _, _, _)
RemainingAfterColor(g, chooser, actions, skip) ==
    IF actions = <<>> THEN {[g |-> g, skip |-> skip]}
    ELSE LET a == Head(actions) IN
         IF a.type = DRAW_CARDS
         THEN UNION {RemainingAfterColor(g1, chooser, Tail(actions), skip) :
                        g1 \in DrawCardsAction(g, chooser, a)}
         ELSE IF a.type = SKIP_PLAYER
         THEN RemainingAfterColor(g, chooser, Tail(actions), TRUE)
         ELSE RemainingAfterColor(g, chooser, Tail(actions), skip)

\* a dict without some keys (dict.pop)
Without(d, keys) == [k \in DOMAIN d \ keys |-> d[k]]

RECURSIVE play_turn(_, _, _)

\* CHOOSE_COLOR resolution
ResolveChooseColor(g, player, args) ==
    LET action_input == ActionInput(args) IN
    IF ~Has(action_input, "chosen_color") \/ action_input.chosen_color = WILD
    THEN {Return(g, FALSE, CHOOSE_COLOR)}
    ELSE IF Has(g.action_data, "is_for_rank_6_wild") /\ g.action_data.is_for_rank_6_wild
    THEN play_turn(
            [g EXCEPT !.action_data = Without(@, {"rank_6_card_idx_pending_color",
                                                  "is_for_rank_6_wild"}),
                      !.pending_action = PLAY_ANY_AND_DRAW_ONE],
            g.action_data.original_player_idx,
            [card_index |-> g.action_data.rank_6_card_idx_pending_color,
             action_input |-> [chosen_color_for_rank_6_wild |-> action_input.chosen_color]])
    ELSE
    LET player_who_chose_idx == IF Has(g.action_data, "player_idx")
                                THEN g.action_data.player_idx ELSE player
        remaining == IF Has(g.action_data, "remaining_actions")
                     THEN g.action_data.remaining_actions ELSE <<>>
    IN
    IF player # player_who_chose_idx
    THEN {Return(g, FALSE, CHOOSE_COLOR)}
    ELSE IF ~Has(g.action_data, "card_played") \/ ~is_wild(g.action_data.card_played)
    THEN {Return(g, FALSE, NoAction)}
    ELSE {Return(AdvanceFrom(l.g, player_who_chose_idx, l.skip), TRUE, NoAction) :
            l \in RemainingAfterColor(
                     ClearPending([g EXCEPT !.current_wild_color = action_input.chosen_color]),
                     player_who_chose_idx, remaining, FALSE)}

\* Part 3 of play_turn: the loop over actions_to_process from its current
\* position on, then the turn advance; the set of results
RECURSIVE ProcessActions(_, _, _, _, _, _)
ProcessActions(g, player, played_card, actions, skip_next_player_flag, advance_turn_normally) ==
    IF actions = <<>>
    THEN IF g.game_over THEN {Return(g, TRUE, NoAction)}
         ELSE IF advance_turn_normally
         THEN {Return(IF skip_next_player_flag
                      THEN _advance_turn_marker(_advance_turn_marker(g))
                      ELSE _advance_turn_marker(g), TRUE, NoAction)}
         ELSE {Return(g, TRUE, NoAction)}
    ELSE
    LET action == Head(actions)
        rest == Tail(actions)
    IN
    IF action.type = GAME_WIN
    THEN {Return([g EXCEPT !.game_over = TRUE, !.winner = player], TRUE, NoAction)}
    ELSE IF action.type = CHOOSE_COLOR
    THEN IF Has(action, "value")
         THEN ProcessActions([g EXCEPT !.current_wild_color = action.value], player,
                             played_card, rest, skip_next_player_flag,
                             advance_turn_normally)
         ELSE {Return([g EXCEPT !.pending_action = CHOOSE_COLOR,
                                !.action_data = [card_played |-> played_card,
                                                 remaining_actions |-> rest,
                                                 player_idx |-> player,
                                                 original_player_idx |-> player]],
                      TRUE, CHOOSE_COLOR)}
    ELSE IF action.type = DRAW_CARDS
    THEN UNION {ProcessActions(g1, player, played_card, rest, skip_next_player_flag,
                               advance_turn_normally) :
                   g1 \in DrawCardsAction(g, player, action)}
    ELSE IF action.type = SKIP_PLAYER
    THEN ProcessActions(g, player, played_card, rest, TRUE, advance_turn_normally)
    ELSE IF action.type = REVERSE_DIRECTION
    THEN ProcessActions([g EXCEPT !.play_direction = -@], player, played_card, rest,
                        skip_next_player_flag, advance_turn_normally)
    ELSE IF action.type \in {SWAP_CARD_RIGHT, SWAP_CARD_ANY, DISCARD_FROM_PLAYER_HAND,
                             PLAY_ANY_AND_DRAW_ONE}
    THEN LET base == [original_card |-> played_card, remaining_actions |-> rest,
                      original_player_idx |-> player]
             data == IF action.type = DISCARD_FROM_PLAYER_HAND
                     THEN [original_card |-> played_card, remaining_actions |-> rest,
                           original_player_idx |-> player,
                           chooser_idx |-> _get_player_at_offset(g, player, -g.play_direction),
                           victim_idx |-> player,
                           count |-> IF Has(action, "value") THEN action.value.count ELSE 2]
                     ELSE base
         IN  {Return([g EXCEPT !.pending_action = action.type, !.action_data = data],
                     TRUE, action.type)}
    ELSE IF action.type = PLAYER_DRAWS_FOUR_UNLESS_LAST
    THEN IF hand_size(g.players[player]) > 0
         THEN UNION {ProcessActions(r.g, player, played_card, rest, skip_next_player_flag,
                                    advance_turn_normally) :
                        r \in player_draws_card(g, player, 4)}
         ELSE ProcessActions(g, player, played_card, rest, skip_next_player_flag,
                             advance_turn_normally)
    ELSE IF action.type = TAKE_RANDOM_FROM_PREVIOUS
    THEN LET previous_player == _get_player_at_offset(g, player, -g.play_direction) IN
         IF ~is_hand_empty(g.players[previous_player])
         THEN UNION {
                LET taken == play_card(g.players[previous_player], card_to_take_idx)
                    g1 == [g EXCEPT !.players[previous_player] = taken.player]
                    g2 == [g1 EXCEPT !.players[player] = add_card_to_hand(@, taken.card)]
                IN  ProcessActions(g2, player, played_card, rest, skip_next_player_flag,
                                   advance_turn_normally)
                : card_to_take_idx \in 0..(hand_size(g.players[previous_player]) - 1)}
         ELSE ProcessActions(g, player, played_card, rest, skip_next_player_flag,
                             advance_turn_normally)
    ELSE IF action.type = PLACE_TOP_DRAW_PILE_CARD
    THEN UNION {
           IF ~h.returned
           THEN ProcessActions(h.g, player, played_card, rest, skip_next_player_flag,
                               advance_turn_normally)
           ELSE LET d == draw_card(h.g.deck)
                    new_top == d.card
                    g1 == [h.g EXCEPT !.deck = add_to_discard(d.deck, new_top)]
                    g2 == IF ~is_wild(new_top)
                          THEN [g1 EXCEPT !.current_wild_color = NoColor] ELSE g1
                    got == _get_card_actions(g2, new_top, player, NoColor)
                    sub_actions == got.actions
                    ends_turn == \E i \in DOMAIN sub_actions :
                        \/ sub_actions[i].type \in {DRAW_CARDS, SKIP_PLAYER, REVERSE_DIRECTION}
                        \/ (sub_actions[i].type = CHOOSE_COLOR
                            /\ ~Has(sub_actions[i], "value"))
                    can_player_play_on_rank9_card ==
                        /\ ~ends_turn
                        /\ has_playable_card(g2.players[player], new_top,
                              IF is_wild(new_top) THEN g2.current_wild_color ELSE NoColor)
                IN  IF got.raised THEN {Raise(g2, TypeError)} ELSE
                    ProcessActions(g2, player, played_card, sub_actions \o rest,
                                   skip_next_player_flag,
                                   IF can_player_play_on_rank9_card THEN FALSE
                                   ELSE advance_turn_normally)
           : h \in _handle_draw_pile_empty(g, player)}
    ELSE ProcessActions(g, player, played_card, rest, skip_next_player_flag,
                        advance_turn_normally)

\* a duplicate rule that discards only the first Rank 2 card of the hand
discard_first_two(g, player) ==
    LET twos == SelectSeq(g.players[player].hand, LAMBDA c : c.rank = TWO) IN
    IF twos = <<>> THEN g
    ELSE [g EXCEPT !.players[player].hand = RemoveFirst(@, twos[1]),
                   !.deck.discard_pile = Append(@, twos[1])]

\* the duplicate rule of play_turn: every Rank 2 card of the hand goes to the
\* discard pile, in hand order
DiscardAllTwos(g, player) ==
    [g EXCEPT !.players[player].hand = SelectSeq(@, LAMBDA c : c.rank # TWO),
              !.deck.discard_pile =
                  @ \o SelectSeq(g.players[player].hand, LAMBDA c : c.rank = TWO)]

\* Part 2 of play_turn: a standard card play
NormalPlay(g, player, args) ==
    IF ~Has(args, "card_index") THEN {Return(g, FALSE, NoAction)}
    ELSE IF ~(0 <= args.card_index /\ args.card_index < hand_size(g.players[player]))
    THEN {Return(g, FALSE, NoAction)}
    ELSE
    LET card_to_play_peek == At(g.players[player].hand, args.card_index)
        top_discard == get_top_discard_card(g.deck)
    IN
    IF top_discard = NoCard THEN {Return(g, FALSE, NoAction)}
    ELSE IF matches(card_to_play_peek, top_discard, g.current_wild_color) = ValueError
    THEN {Raise(g, ValueError)}
    ELSE IF matches(card_to_play_peek, top_discard, g.current_wild_color) = False
    THEN {Return(g, FALSE, NoAction)}
    ELSE
    LET played == play_card(g.players[player], args.card_index)
        played_card == played.card
        card_underneath_played_one == top_discard
        g1 == [g EXCEPT !.players[player] = played.player,
                        !.deck = add_to_discard(@, played_card)]
        duplicate == /\ played_card.rank = card_underneath_played_one.rank
                     /\ played_card.color = card_underneath_played_one.color
                     /\ ~is_wild(played_card)
        g2 == IF duplicate THEN DiscardAllTwos(g1, player) ELSE g1
    IN
    IF /\ duplicate
       /\ \E i \in DOMAIN g1.players[player].hand : g1.players[player].hand[i].rank = TWO
       /\ is_hand_empty(g2.players[player])
    THEN {Return([g2 EXCEPT !.game_over = TRUE, !.winner = player], TRUE, NoAction)}
    ELSE
    LET g3 == IF ~is_wild(played_card)
              THEN [g2 EXCEPT !.current_wild_color = NoColor] ELSE g2
        g4 == _award_color_counters(g3, player, played_card)
        got == _get_card_actions(g4, played_card, player,
                                 IF is_wild(played_card) THEN ChosenColorForWild(args)
                                 ELSE NoColor)
        card_actions == got.actions
        actions_to_process ==
            IF is_hand_empty(g4.players[player])
               /\ ~\E i \in DOMAIN card_actions : card_actions[i].type = GAME_WIN
            THEN <<GameAction(GAME_WIN)>> ELSE card_actions
    IN  IF got.raised THEN {Raise(g4, TypeError)}
        ELSE ProcessActions(g4, player, played_card, actions_to_process, FALSE, TRUE)

\* UnoGame.play_turn(player, card_index, action_input, chosen_color_for_wild):
\* args holds the arguments that are not None; the set of results
play_turn(g, player, args) ==
    IF g.pending_action = NoAction /\ player # g.current_player_index
    THEN {Return(g, FALSE, NoAction)}
    ELSE IF g.game_over THEN {Return(g, FALSE, NoAction)}
    ELSE IF g.pending_action # NoAction
    THEN LET original_initiator_idx ==
                 IF Has(g.action_data, "original_player_idx")
                 THEN g.action_data.original_player_idx ELSE g.current_player_index
         IN  IF g.pending_action = SWAP_CARD_RIGHT
             THEN ResolveSwapCardRight(g, player, args, original_initiator_idx)
             ELSE IF g.pending_action = SWAP_CARD_ANY
             THEN ResolveSwapCardAny(g, player, args, original_initiator_idx)
             ELSE IF g.pending_action = DISCARD_FROM_PLAYER_HAND
             THEN ResolveDiscardFromPlayerHand(g, player, args)
             ELSE IF g.pending_action = PLAY_ANY_AND_DRAW_ONE
             THEN ResolvePlayAnyAndDrawOne(g, player, args, original_initiator_idx)
             ELSE IF g.pending_action = CHOOSE_COLOR
             THEN ResolveChooseColor(g, player, args)
             ELSE NormalPlay(g, player, args)
    ELSE NormalPlay(g, player, args)

\* ------------------------------------------------------------------------
\* game.py: player_cannot_play_action
\* ------------------------------------------------------------------------
\* the loop over the actions of the drawn-and-played card: the set of [g, skip]
RECURSIVE DrawnCardActions(_, _, _, _)
DrawnCardActions(g, player, actions, skip) ==
    IF actions = <<>> THEN {[g |-> g, skip |-> skip]}
    ELSE LET a == Head(actions) IN
         IF a.type = GAME_WIN
         THEN {[g |-> [g EXCEPT !.game_over = TRUE, !.winner = player], skip |-> skip]}
         ELSE IF a.type = DRAW_CARDS
         THEN UNION {DrawnCardActions(g1, player, Tail(actions), skip) :
                        g1 \in DrawCardsAction(g, player, a)}
         ELSE IF a.type = SKIP_PLAYER
         THEN DrawnCardActions(g, player, Tail(actions), TRUE)
         ELSE IF a.type = REVERSE_DIRECTION
         THEN DrawnCardActions([g EXCEPT !.play_direction = -@], player,
                               Tail(actions), skip)
         ELSE DrawnCardActions(g, player, Tail(actions), skip)

\* who player_cannot_play_action expects to act on the pending action
ExpectedActorForPending(g) ==
    IF g.pending_action = DISCARD_FROM_PLAYER_HAND THEN g.action_data.chooser_idx
    ELSE IF g.pending_action = CHOOSE_COLOR
    THEN IF Has(g.action_data, "player_idx") THEN g.action_data.player_idx
         ELSE g.action_data.original_player_idx
    ELSE IF Has(g.action_data, "original_player_idx")
    THEN g.action_data.original_player_idx
    ELSE g.current_player_index

\* the stored Yellow 4 is played instead of drawing
PlayJailCard(g, player) ==
    LET y4_card == g.players[player].get_out_of_jail_yellow_4
        g1 == [g EXCEPT !.players[player] = use_get_out_of_jail_card(@).player,
                        !.deck = add_to_discard(@, y4_card)]
        g2 == IF ~is_wild(y4_card) THEN [g1 EXCEPT !.current_wild_color = NoColor] ELSE g1
        g3 == _award_color_counters(g2, player, y4_card)
    IN  IF is_hand_empty(g3.players[player])
           /\ g3.players[player].get_out_of_jail_yellow_4 = NoCard
        THEN {Return([g3 EXCEPT !.game_over = TRUE, !.winner = player], TRUE, NoAction)}
        ELSE {Return(_advance_turn_marker(g3), TRUE, NoAction)}

\* the drawn card is playable: it is played at once
PlayDrawnCard(g, player, drawn_card) ==
    LET g1 == [g EXCEPT !.players[player] = remove_card_from_hand(@, drawn_card),
                        !.deck = add_to_discard(@, drawn_card)]
    IN  UNION {
          LET g2 == [g1 EXCEPT !.current_wild_color = chosen_color]
              g3 == _award_color_counters(g2, player, drawn_card)
          IN  IF is_hand_empty(g3.players[player])
              THEN {Return([g3 EXCEPT !.game_over = TRUE, !.winner = player],
                           TRUE, NoAction)}
              ELSE LET got == _get_card_actions(g3, drawn_card, player, chosen_color) IN
                   IF got.raised THEN {Raise(g3, TypeError)} ELSE
                   {IF l.g.game_over THEN Return(l.g, TRUE, NoAction)
                    ELSE Return(IF l.skip
                                THEN _advance_turn_marker(_advance_turn_marker(l.g))
                                ELSE _advance_turn_marker(l.g), TRUE, NoAction) :
                       l \in DrawnCardActions(g3, player, got.actions, FALSE)}
          : chosen_color \in IF is_wild(drawn_card) THEN RealColors ELSE {NoColor}}

\* player_cannot_play_action past its checks: the stored Yellow 4 is played, or
\* one card is drawn and played when it can be
DrawOrPlayJailCard(g, player) ==
    LET top_card_on_discard == get_top_discard_card(g.deck)
        y4_card == g.players[player].get_out_of_jail_yellow_4
        jail_playable == IF has_get_out_of_jail_card(g.players[player])
                            /\ top_card_on_discard # NoCard
                         THEN matches(y4_card, top_card_on_discard, g.current_wild_color)
                         ELSE False
    IN
    IF jail_playable = ValueError THEN {Raise(g, ValueError)}
    ELSE IF jail_playable = True THEN PlayJailCard(g, player)
    ELSE UNION {
           IF d.drawn = <<>>
           THEN {Return(_advance_turn_marker(d.g), TRUE, NoAction)}
           ELSE LET drawn_card == d.drawn[1]
                    top == get_top_discard_card(d.g.deck)
                    playable == IF top # NoCard
                                THEN matches(drawn_card, top, d.g.current_wild_color)
                                ELSE False
                IN  IF playable = ValueError THEN {Raise(d.g, ValueError)}
                    ELSE IF playable = True THEN PlayDrawnCard(d.g, player, drawn_card)
                    ELSE {Return(_advance_turn_marker(d.g), TRUE, NoAction)}
           : d \in player_draws_card(g, player, 1)}

\* player_cannot_play_action without its game-over check
cannot_play_after_game_over(g, player) ==
    IF player # g.current_player_index THEN {Return(g, FALSE, NoAction)}
    ELSE IF g.pending_action # NoAction /\ player = ExpectedActorForPending(g)
    THEN {Return(g, FALSE, NoAction)}
    ELSE DrawOrPlayJailCard(g, player)

\* UnoGame.player_cannot_play_action(player): the set of results
player_cannot_play_action(g, player) ==
    IF player # g.current_player_index THEN {Return(g, FALSE, NoAction)}
    ELSE IF g.game_over THEN {Return(g, FALSE, NoAction)}
    ELSE IF g.pending_action # NoAction /\ player = ExpectedActorForPending(g)
    THEN {Return(g, FALSE, NoAction)}
    ELSE DrawOrPlayJailCard(g, player)

\* ------------------------------------------------------------------------
\* game.py: UnoGame.__init__ and _setup_game
\* ------------------------------------------------------------------------
\* the initial deal: initial_hand_size rounds, one card per player per round.
\* the draw numbered k (from 0) takes cards[Len(cards) - k]; in round r (from 1)
\* player p takes the draw numbered (r - 1) * num_players + p
DealHands(deck, num_players, initial_hand_size) ==
    [deck |-> [deck EXCEPT !.cards =
                  SubSeq(@, 1, Len(@) - num_players * initial_hand_size)],
     players |-> [p \in 0..(num_players - 1) |->
                    [Player EXCEPT !.hand =
                        [r \in 1..initial_hand_size |->
                            deck.cards[Len(deck.cards) - ((r - 1) * num_players + p)]]]]]

\* a first discard taken as it comes
first_card_as_drawn(cards) == {cards}

\* the first discard: a Wild Draw Four goes back and the pile is shuffled again
\* until another card comes up; the set of draw piles with that card on top
FirstDiscardPiles(cards) ==
    IF Last(cards).rank # WILD_DRAW_FOUR THEN {cards}
    ELSE {c \in shuffle(cards) : Last(c).rank # WILD_DRAW_FOUR}

\* UnoGame(player_names, initial_hand_size) on a deck that Deck() left shuffled
\* as shuffled_cards: the set of games after construction (empty when the
\* constructor raises)
UnoGame(shuffled_cards, num_players, initial_hand_size) ==
    IF ~(2 <= num_players /\ num_players <= 4) \/ initial_hand_size <= 0
       \/ Len(shuffled_cards) <= num_players * initial_hand_size
    THEN {}
    ELSE
    LET dealt == DealHands([cards |-> shuffled_cards, discard_pile |-> <<>>],
                           num_players, initial_hand_size)
    IN  UNION {
          LET first_discard == Last(c)
              deck0 == [cards |-> Front(c), discard_pile |-> <<first_discard>>]
          IN  {[deck |-> deck0,
                players |-> dealt.players,
                current_player_index |-> start,
                game_over |-> FALSE,
                winner |-> -1,
                play_direction |-> 1,
                current_wild_color |-> color,
                pending_action |-> NoAction,
                action_data |-> EmptyDict] :
                  start \in 0..(num_players - 1),
                  color \in IF is_wild(first_discard) THEN RealColors ELSE {NoColor}}
          : c \in FirstDiscardPiles(dealt.deck.cards)}

\* ------------------------------------------------------------------------
\* The shuffled decks the games are started from
\* ------------------------------------------------------------------------
\* a shuffle of the standard deck given by the cards that come off the top
\* first (in draw order) and those that come off last (in draw order)
Shuffled(first, last) ==
    Reverse(last) \o RemoveEach(create_standard_deck, first \o last) \o Reverse(first)

\* the draw order in which the deal gives the players these hands
DealOrder(hands) ==
    [k \in 1..(Len(hands) * Len(hands[1])) |->
        hands[((k - 1) % Len(hands)) + 1][((k - 1) \div Len(hands)) + 1]]

\* a game whose shuffle dealt these hands, turned up first_discard and left
\* next_draws on top of the draw pile
Dealt(hands, first_discard, next_draws) ==
    UnoGame(Shuffled(DealOrder(hands) \o <<first_discard>> \o next_draws, <<>>),
            Len(hands), Len(hands[1]))

\* the games among these in which player 0 was picked to start
StartedByFirst(games) == {g \in games : g.current_player_index = 0}

\* Blue 3 played from a hand that holds a Wild
GamesDiscard ==
    Dealt(<< <<Card(BLUE, THREE), Card(WILD, RANK_WILD), Card(RED, SEVEN),
               Card(RED, TWO)>>,
             <<Card(RED, FIVE), Card(GREEN, FIVE), Card(YELLOW, ZERO),
               Card(BLUE, SEVEN)>> >>,
          Card(RED, THREE), <<Card(GREEN, ONE)>>)

\* Green 5 and Rank 6 against a hand that goes down to one card
GamesTake ==
    Dealt(<< <<Card(GREEN, FIVE), Card(RED, SIX)>>,
             <<Card(GREEN, ONE), Card(WILD, RANK_WILD)>> >>,
          Card(GREEN, SIX), <<Card(BLUE, ONE)>>)

\* Rank 6 with wild cards to play freely, Rank 9 revealing a Wild, Rank 0
GamesFreePlay ==
    Dealt(<< <<Card(RED, SIX), Card(WILD, RANK_WILD), Card(WILD, WILD_DRAW_FOUR)>>,
             <<Card(RED, NINE), Card(RED, ZERO), Card(YELLOW, SIX)>> >>,
          Card(RED, ONE), <<Card(WILD, RANK_WILD), Card(BLUE, TWO)>>)

\* the duplicate rule, and a Draw Two played as the last card
GamesLastCard ==
    Dealt(<< <<Card(RED, FIVE), Card(RED, TWO)>>,
             <<Card(RED, SKIP), Card(RED, DRAW_TWO)>> >>,
          Card(RED, FIVE), <<Card(YELLOW, ONE)>>)

\* one card each, a Wild and a Green 5; the draw pile gives a card that cannot
\* be played, then a Wild
GamesOneCard ==
    Dealt(<< <<Card(WILD, RANK_WILD)>>, <<Card(GREEN, FIVE)>> >>,
          Card(RED, FIVE), <<Card(BLUE, THREE), Card(WILD, RANK_WILD)>>)

\* three players: Reverse, Draw Two, Skip, Red 8
GamesThree ==
    StartedByFirst(
        Dealt(<< <<Card(RED, REVERSE), Card(RED, DRAW_TWO)>>,
                 <<Card(RED, SKIP), Card(BLUE, THREE)>>,
                 <<Card(RED, EIGHT), Card(YELLOW, FOUR)>> >>,
              Card(RED, ONE), <<Card(GREEN, TWO)>>))

\* two players holding 53 cards each: one card is left in the draw pile; the
\* first card turned up is a Wild Draw Four in the second game
GamesLongHands ==
    UnoGame(Shuffled(<<Card(GREEN, ONE), Card(GREEN, TWO), Card(GREEN, THREE)>>,
                     <<Card(BLUE, ONE), Card(GREEN, FOUR)>>), 2, 53)
    \cup UnoGame(Shuffled(<<Card(GREEN, ONE), Card(GREEN, TWO), Card(GREEN, THREE)>>,
                          <<Card(WILD, WILD_DRAW_FOUR), Card(GREEN, FOUR)>>), 2, 53)

\* two players, a Reverse each
GamesReverse ==
    StartedByFirst(
        Dealt(<< <<Card(RED, REVERSE), Card(RED, ONE)>>,
                 <<Card(RED, REVERSE), Card(RED, FOUR)>> >>,
              Card(RED, THREE), <<Card(GREEN, ONE)>>))

\* Rank 9 revealing a card its player can play on
GamesReveal ==
    StartedByFirst(
        Dealt(<< <<Card(RED, NINE), Card(GREEN, ONE)>>,
                 <<Card(BLUE, FOUR), Card(BLUE, FIVE)>> >>,
              Card(RED, ONE), <<Card(GREEN, FOUR)>>))

\* two players: a Blue 3 whose player is left with one card to lose, then a
\* Rank 7 played towards the hand that was emptied
GamesSwapEmpty ==
    StartedByFirst(
        Dealt(<< <<Card(BLUE, THREE), Card(BLUE, ONE)>>,
                 <<Card(BLUE, SEVEN), Card(GREEN, TWO)>> >>,
              Card(BLUE, FIVE), <<Card(YELLOW, ONE)>>))

\* three players: Rank 7 and Rank 0
GamesSwapThree ==
    StartedByFirst(
        Dealt(<< <<Card(RED, SEVEN), Card(RED, ZERO)>>,
                 <<Card(GREEN, ONE), Card(GREEN, TWO)>>,
                 <<Card(BLUE, ONE), Card(BLUE, TWO)>> >>,
              Card(RED, ONE), <<Card(YELLOW, ONE)>>))

\* Rank 6 with a Red 8 and a Green 5 to play freely; the draw pile gives a
\* Rank 7 that can be played
GamesFreeEffects ==
    StartedByFirst(
        Dealt(<< <<Card(RED, SIX), Card(RED, EIGHT), Card(GREEN, FIVE)>>,
                 <<Card(YELLOW, ONE), Card(YELLOW, TWO), Card(YELLOW, THREE)>> >>,
              Card(RED, FOUR), <<Card(RED, SEVEN)>>))

\* a Red 5 to play on a Red 5 from a hand that holds Rank 2 cards and another
GamesDuplicate ==
    StartedByFirst(
        Dealt(<< <<Card(RED, FIVE), Card(RED, TWO), Card(GREEN, ONE), Card(BLUE, TWO)>>,
                 <<Card(YELLOW, ONE), Card(YELLOW, THREE), Card(YELLOW, FOUR),
                   Card(YELLOW, SIX)>> >>,
              Card(RED, FIVE), <<Card(YELLOW, SEVEN)>>))

\* three players; a Rank 9 reveals a Skip on which its player could play
GamesRevealSkip ==
    StartedByFirst(
        Dealt(<< <<Card(RED, NINE), Card(RED, FOUR)>>,
                 <<Card(YELLOW, ONE), Card(YELLOW, TWO)>>,
                 <<Card(BLUE, ONE), Card(BLUE, TWO)>> >>,
              Card(RED, THREE), <<Card(RED, SKIP)>>))

\* a Blue 3 whose player then draws a Wild while the chooser has not chosen
GamesDrawWild ==
    StartedByFirst(
        Dealt(<< <<Card(BLUE, THREE), Card(GREEN, ONE), Card(GREEN, TWO)>>,
                 <<Card(GREEN, FIVE), Card(YELLOW, TWO), Card(YELLOW, THREE)>> >>,
              Card(RED, THREE), <<Card(WILD, RANK_WILD)>>))

\* three players, two of them with a Green 5, one with a Reverse
GamesTakeThree ==
    StartedByFirst(
        Dealt(<< <<Card(GREEN, FIVE), Card(GREEN, REVERSE)>>,
                 <<Card(YELLOW, ONE), Card(YELLOW, TWO)>>,
                 <<Card(GREEN, FIVE), Card(BLUE, TWO)>> >>,
              Card(GREEN, THREE), <<Card(RED, ONE)>>))

Games == GamesDiscard \cup GamesTake \cup GamesFreePlay \cup GamesLastCard
         \cup GamesOneCard \cup GamesThree \cup GamesLongHands \cup GamesReverse
         \cup GamesReveal \cup GamesSwapEmpty \cup GamesSwapThree
         \cup GamesFreeEffects \cup GamesDuplicate \cup GamesRevealSkip
         \cup GamesDrawWild \cup GamesTakeThree

\* ------------------------------------------------------------------------
\* The state machine
\* ------------------------------------------------------------------------
\* the fields of the UnoGame object; result is what the last call ended with,
\* calls counts the calls made, match is a call of Card.matches
VARIABLES deck, players, current_player_index, game_over, winner, play_direction,
          current_wild_color, pending_action, action_data, result, calls, match

game_vars == <<deck, players, current_player_index, game_over, winner, play_direction,
               current_wild_color, pending_action, action_data>>

vars == <<game_vars, result, calls, match>>

\* the UnoGame object
Game == [deck |-> deck, players |-> players,
         current_player_index |-> current_player_index, game_over |-> game_over,
         winner |-> winner, play_direction |-> play_direction,
         current_wild_color |-> current_wild_color,
         pending_action |-> pending_action, action_data |-> action_data]

\* number of calls explored that succeed or raise; rejected calls are not counted
MaxCalls == 3
\* card, player and hand indices given as input run from -1 to MaxIndex
MaxIndex == 2

IndexInputs == -1..MaxIndex

ChosenIndexLists ==
    {<<>>} \cup {<<i>> : i \in IndexInputs} \cup {<<i, j>> : i, j \in IndexInputs}
    \cup {<<i, i, j>> : i, j \in IndexInputs}

ActionInputs ==
    {[card_to_give_idx |-> i, card_to_take_idx |-> j] : i, j \in IndexInputs}
    \cup {[target_player_idx |-> t] : t \in IndexInputs}
    \cup {[chosen_indices_from_victim |-> l] : l \in ChosenIndexLists}
    \cup {[chosen_color |-> c] : c \in Color}

\* the arguments of play_turn other than the player
PlayTurnArgs ==
    {EmptyDict}
    \cup {[card_index |-> i] : i \in IndexInputs}
    \cup {[card_index |-> i, chosen_color_for_wild |-> c] : i \in IndexInputs, c \in Color}
    \cup {[card_index |-> i, action_input |-> [chosen_color_for_rank_6_wild |-> c]] :
             i \in IndexInputs, c \in Color}
    \cup {[action_input |-> a] : a \in ActionInputs}

NoResult == [op |-> "None", player |-> -1, success |-> FALSE, raised |-> NoError,
             prompt |-> NoAction]

\* no call of Card.matches
NoMatch == [self |-> NoCard, other_card |-> NoCard,
            current_color_chosen_for_wild |-> NoColor, returned |-> "None"]

\* the UnoGame object is g
IsGame(g) ==
    /\ deck = g.deck
    /\ players = g.players
    /\ current_player_index = g.current_player_index
    /\ game_over = g.game_over
    /\ winner = g.winner
    /\ play_direction = g.play_direction
    /\ current_wild_color = g.current_wild_color
    /\ pending_action = g.pending_action
    /\ action_data = g.action_data

Init ==
    /\ \E g \in Games : IsGame(g)
    /\ result = NoResult
    /\ calls = 0
    /\ match = NoMatch

\* the call ends with r
Ends(op, player, r) ==
    /\ deck' = r.g.deck
    /\ players' = r.g.players
    /\ current_player_index' = r.g.current_player_index
    /\ game_over' = r.g.game_over
    /\ winner' = r.g.winner
    /\ play_direction' = r.g.play_direction
    /\ current_wild_color' = r.g.current_wild_color
    /\ pending_action' = r.g.pending_action
    /\ action_data' = r.g.action_data
    /\ result' = [op |-> op, player |-> player, success |-> r.success,
                  raised |-> r.raised, prompt |-> r.prompt]
    /\ calls' = IF r.success \/ r.raised # NoError THEN calls + 1 ELSE calls
    /\ UNCHANGED match

PlayTurn ==
    /\ calls < MaxCalls
    /\ \E player \in DOMAIN players : \E args \in PlayTurnArgs :
         \E r \in play_turn(Game, player, args) : Ends("play_turn", player, r)

CannotPlay ==
    /\ calls < MaxCalls
    /\ \E player \in DOMAIN players :
         \E r \in player_cannot_play_action(Game, player) :
            Ends("player_cannot_play_action", player, r)

Next == PlayTurn \/ CannotPlay

Spec == Init /\ [][Next]_vars

\* ------------------------------------------------------------------------
\* Card.matches on its own: the inputs are drawn at the start, one step applies it
\* ------------------------------------------------------------------------
\* the distinct cards of the standard deck
Cards == SeqToSet(create_standard_deck)

MatchInit ==
    /\ IsGame(CHOOSE g \in GamesOneCard : TRUE)
    /\ result = NoResult
    /\ calls = 0
    /\ \E self \in Cards, other_card \in Cards, color \in Color \cup {NoColor} :
          match = [self |-> self, other_card |-> other_card,
                   current_color_chosen_for_wild |-> color, returned |-> "None"]

Matches ==
    /\ match.returned = "None"
    /\ match' = [match EXCEPT !.returned =
                    matches(match.self, match.other_card,
                            match.current_color_chosen_for_wild)]
    /\ UNCHANGED <<game_vars, result, calls>>

MatchNext == Matches

MatchSpec == MatchInit /\ [][MatchNext]_vars

\* ------------------------------------------------------------------------
\* Deck.reshuffle_discard_pile_into_deck on its own: the two piles are drawn at
\* the start, one step applies it
\* ------------------------------------------------------------------------
\* the piles hold up to MaxPile cards each
MaxPile == 2

PileCards == {Card(RED, ONE), Card(GREEN, TWO), Card(WILD, RANK_WILD)}

Piles == UNION {[1..n -> PileCards] : n \in 0..MaxPile}

ReshuffleInit ==
    /\ \E g \in GamesOneCard : \E cards \in Piles, discard_pile \in Piles :
          IsGame([g EXCEPT !.deck = [cards |-> cards, discard_pile |-> discard_pile]])
    /\ result = NoResult
    /\ calls = 0
    /\ match = NoMatch

Reshuffles ==
    /\ calls = 0
    /\ \E keep_top_card \in BOOLEAN :
          \E r \in reshuffle_discard_pile_into_deck(deck, keep_top_card) :
             /\ deck' = r.deck
             /\ result' = [NoResult EXCEPT !.op = "reshuffle_discard_pile_into_deck",
                                           !.success = r.returned]
    /\ calls' = calls + 1
    /\ UNCHANGED <<players, current_player_index, game_over, winner, play_direction,
                   current_wild_color, pending_action, action_data, match>>

ReshuffleNext == Reshuffles

ReshuffleSpec == ReshuffleInit /\ [][ReshuffleNext]_vars

\* ------------------------------------------------------------------------
\* Player.store_yellow_4_get_out_of_jail and Player.use_get_out_of_jail_card on
\* their own: one player with a hand drawn at the start and nothing stored;
\* each step makes one of the two calls
\* ------------------------------------------------------------------------
JailInit ==
    /\ \E g \in GamesOneCard : \E hand \in Piles :
          IsGame([g EXCEPT !.players = [p \in {0} |-> [Player EXCEPT !.hand = hand]]])
    /\ result = NoResult
    /\ calls = 0
    /\ match = NoMatch

Stores ==
    /\ calls < MaxCalls
    /\ \E card \in Cards :
          LET stored == store_yellow_4_get_out_of_jail(players[0], card) IN
          /\ players' = [players EXCEPT ![0] = stored.player]
          /\ result' = [NoResult EXCEPT !.op = "store_yellow_4_get_out_of_jail",
                                        !.player = 0,
                                        !.success = stored.returned]
    /\ calls' = calls + 1
    /\ UNCHANGED <<deck, current_player_index, game_over, winner, play_direction,
                   current_wild_color, pending_action, action_data, match>>

Uses ==
    /\ calls < MaxCalls
    /\ LET used == use_get_out_of_jail_card(players[0]) IN
          /\ players' = [players EXCEPT ![0] = used.player]
          /\ result' = [NoResult EXCEPT !.op = "use_get_out_of_jail_card",
                                        !.player = 0,
                                        !.success = (used.returned # NoCard)]
    /\ calls' = calls + 1
    /\ UNCHANGED <<deck, current_player_index, game_over, winner, play_direction,
                   current_wild_color, pending_action, action_data, match>>

JailNext == Stores \/ Uses

JailSpec == JailInit /\ [][JailNext]_vars

\* ------------------------------------------------------------------------
\* Deck on its own: Deck() builds the standard deck and shuffles it; each step
\* draws the top card and puts it on the discard pile
\* ------------------------------------------------------------------------
\* the shuffles the deck starts from: none, the reverse order, and one that
\* leaves three Green cards on top
FreshDecks ==
    {create_standard_deck, Reverse(create_standard_deck),
     Shuffled(<<Card(GREEN, ONE), Card(GREEN, TWO), Card(GREEN, THREE)>>, <<>>)}

DeckInit ==
    /\ \E g \in GamesOneCard : \E cards \in FreshDecks :
          IsGame([g EXCEPT !.deck = [cards |-> cards, discard_pile |-> <<>>]])
    /\ result = NoResult
    /\ calls = 0
    /\ match = NoMatch

DrawsAndDiscards ==
    /\ ~is_empty(deck)
    /\ LET drawn == draw_card(deck) IN
          deck' = add_to_discard(drawn.deck, drawn.card)
    /\ result' = [NoResult EXCEPT !.op = "draw_card", !.success = TRUE]
    /\ calls' = calls + 1
    /\ UNCHANGED <<players, current_player_index, game_over, winner, play_direction,
                   current_wild_color, pending_action, action_data, match>>

DeckNext == DrawsAndDiscards

DeckSpec == DeckInit /\ [][DeckNext]_vars

\* ------------------------------------------------------------------------
\* Properties
\* ------------------------------------------------------------------------
Count(s, x) == Cardinality({i \in DOMAIN s : s[i] = x})

\* the positions of all hands: <<player, position>>
HandSlots == UNION {{<<p, i>> : i \in DOMAIN players[p].hand} : p \in DOMAIN players}

\* how many copies of card c the game holds, over both piles, the hands and the
\* stored Yellow 4 cards
CardCount(c) ==
    Count(deck.cards, c) + Count(deck.discard_pile, c)
    + Cardinality({x \in HandSlots : players[x[1]].hand[x[2]] = c})
    + Cardinality({p \in DOMAIN players : players[p].get_out_of_jail_yellow_4 = c})

TotalCards ==
    Len(deck.cards) + Len(deck.discard_pile) + Cardinality(HandSlots)
    + Cardinality({p \in DOMAIN players : has_get_out_of_jail_card(players[p])})

\* C1: after setup and after every call, whether it succeeded, was rejected,
\* raised or suspended, the draw pile, the discard pile, the hands and the stored
\* jail cards hold 108 cards together, and exactly the cards of the standard deck
C1_CardConservation ==
    /\ TotalCards = 108
    /\ \A c \in Cards : CardCount(c) = Count(create_standard_deck, c)

\* C1 witness: cards have been played, yet the discard pile is down to its top
\* card: a draw has reshuffled the discard pile into the draw pile
C1_AfterReshuffle ==
    /\ result.op = "player_cannot_play_action"
    /\ result.success
    /\ Len(deck.discard_pile) = 1
    /\ deck.cards # <<>>
    /\ \E p \in DOMAIN players : players[p].shuffle_counters > 0

\* C2: a play_turn call that returns failure leaves the whole game unchanged,
\* the order of every hand included
C2_FailedPlayTurnChangesNothing ==
    [][(result'.op = "play_turn" /\ ~result'.success /\ result'.raised = NoError)
         => UNCHANGED game_vars]_vars

\* C3: while a pending action exists, a play_turn call by a player other than
\* its designated actor is rejected and changes nothing
C3_OnlyDesignatedActorProgresses ==
    [][(/\ pending_action # NoAction
        /\ result'.op = "play_turn"
        /\ result'.player # ExpectedActorForPending(Game))
         => (/\ ~result'.success
             /\ result'.raised = NoError
             /\ UNCHANGED game_vars)]_vars

\* C4: between two calls, a player whose hand is empty has won: the game is over
\* and a winner is set
C4_EmptyHandMeansGameOver ==
    \A p \in DOMAIN players :
        is_hand_empty(players[p]) => (game_over /\ winner # -1)

\* C5: when a normal play removes the last card of the acting player, the call
\* succeeds, the game is over, that player is the winner, and no effect of the
\* card runs: no other hand changes, no card is drawn, the direction and the
\* current player stay and no pending action is opened
C5_LastCardWinsWithoutEffects ==
    [][\A p \in DOMAIN players :
         (/\ pending_action = NoAction
          /\ ~game_over
          /\ result'.op = "play_turn"
          /\ result'.player = p
          /\ p = current_player_index
          /\ hand_size(players[p]) = 1
          /\ hand_size(players'[p]) = 0)
         => (/\ result'.success
             /\ game_over'
             /\ winner' = p
             /\ \A q \in DOMAIN players \ {p} : players'[q] = players[q]
             /\ deck'.cards = deck.cards
             /\ play_direction' = play_direction
             /\ current_player_index' = current_player_index
             /\ pending_action' = NoAction)]_vars

\* C6: once the game is over it stays over with the same winner, and every
\* later play_turn or player_cannot_play_action call, by any player, is rejected
\* and changes nothing
C6_GameOverIsFinal ==
    [][game_over => (/\ UNCHANGED game_vars
                     /\ ~result'.success
                     /\ result'.raised = NoError)]_vars

\* C6 witness: the game is over and the last call, made after that, was rejected
C6_RejectedAfterGameOver ==
    /\ game_over
    /\ winner # -1
    /\ result.op \in {"play_turn", "player_cannot_play_action"}
    /\ ~result.success
    /\ result.raised = NoError

\* the card may be played on the top of the discard pile: it is wild, or the top
\* is not wild and the colors or the ranks are equal, or the top is wild and the
\* color of the card is the active color
Legal(card, top, active) ==
    \/ is_wild(card)
    \/ (~is_wild(top) /\ (card.color = top.color \/ card.rank = top.rank))
    \/ (is_wild(top) /\ card.color = active)

\* C7: with no pending action, a normal play by the current player succeeds only
\* if the indexed card may be played on the top of the discard pile under the
\* active color, and a card that may not is rejected and stays in the hand
C7_NormalPlayNeedsMatch ==
    (pending_action = NoAction /\ ~game_over) =>
        \A args \in PlayTurnArgs :
            (/\ Has(args, "card_index")
             /\ 0 <= args.card_index
             /\ args.card_index < hand_size(players[current_player_index]))
            => LET card == At(players[current_player_index].hand, args.card_index)
                   legal == Legal(card, get_top_discard_card(deck), current_wild_color)
               IN  \A r \in play_turn(Game, current_player_index, args) :
                      /\ r.success => legal
                      /\ ~legal => (~r.success /\ r.raised = NoError /\ r.g = Game)

\* C8: matches returns true for every wild candidate; for another candidate on
\* a wild top with an active color, true exactly when the color of the candidate
\* is the active color; for another candidate on a top that is not wild, true
\* exactly when the colors or the ranks are equal
C8_MatchesIsTheRule ==
    match.returned # "None" =>
        LET self == match.self
            top == match.other_card
            active == match.current_color_chosen_for_wild
        IN  /\ is_wild(self) => match.returned = True
            /\ (~is_wild(self) /\ is_wild(top) /\ active # NoColor)
                  => match.returned = Bool(self.color = active)
            /\ (~is_wild(self) /\ ~is_wild(top))
                  => match.returned = Bool(self.color = top.color \/ self.rank = top.rank)

\* C8 witness: a candidate that is not wild has been matched by rank alone
C8_MatchedByRank ==
    /\ match.returned = True
    /\ ~is_wild(match.self)
    /\ ~is_wild(match.other_card)
    /\ match.self.color # match.other_card.color

\* C9: matching a candidate that is not wild against a wild top with no active
\* color returns false
C9_NoActiveColorIsNoMatch ==
    (/\ match.returned # "None"
     /\ ~is_wild(match.self)
     /\ is_wild(match.other_card)
     /\ match.current_color_chosen_for_wild = NoColor)
    => match.returned = False

\* C10: while the game is not over and no pending action exists, a wild card on
\* top of the discard pile has an active color, one of the four real colors
C10_WildTopHasActiveColor ==
    (/\ ~game_over
     /\ pending_action = NoAction
     /\ is_wild(get_top_discard_card(deck)))
    => current_wild_color \in RealColors

\* the hand indices of the current player
HandIndices == 0..(hand_size(players[current_player_index]) - 1)

\* the card of the current player at a hand index
HandCard(i) == At(players[current_player_index].hand, i)

\* the results of play_turn(current player, i): the current player plays the
\* card at hand index i
Plays(i) == play_turn(Game, current_player_index, [card_index |-> i])

\* a normal play can be made: no pending action and the game is not over
NormalTurn == pending_action = NoAction /\ ~game_over

\* the last call was a successful normal play of a card of this rank that
\* left the game running with nothing pending
Played(rank) ==
    /\ result.op = "play_turn"
    /\ result.success
    /\ ~game_over
    /\ pending_action = NoAction
    /\ get_top_discard_card(deck).rank = rank

\* C11: in a 2-player game, a Reverse played by the current player that leaves
\* cards in the hand negates the play direction, and the current player after
\* the call is again the player who played it
C11_TwoPlayerReverse ==
    (NormalTurn /\ NumPlayers(Game) = 2) =>
        \A i \in HandIndices : HandCard(i).rank = REVERSE =>
            \A r \in Plays(i) :
                (r.success /\ ~is_hand_empty(r.g.players[current_player_index])) =>
                    /\ r.g.play_direction = -play_direction
                    /\ r.g.current_player_index = current_player_index

\* C11 witness: in a 2-player game a Reverse has been played against the
\* direction of the deal, and its player is the current player again
C11_ReversePlayedTwice ==
    /\ Played(REVERSE)
    /\ NumPlayers(Game) = 2
    /\ play_direction = 1
    /\ Len(deck.discard_pile) = 3
    /\ current_player_index = result.player

\* the player n steps from player p in the play direction of game g
StepsFrom(g, p, n) == (p + n * g.play_direction + n * NumPlayers(g)) % NumPlayers(g)

\* the card makes the turn pass over one more player: Draw Two, Skip, Wild Draw
\* Four, and Reverse between two players
CarriesSkip(card) ==
    \/ card.rank \in {DRAW_TWO, SKIP, WILD_DRAW_FOUR}
    \/ (card.rank = REVERSE /\ NumPlayers(Game) = 2)

\* the call has completed a play: it succeeded, nothing is pending and the game
\* is not over
Completed(r) == r.success /\ r.g.pending_action = NoAction /\ ~r.g.game_over

\* after the play of card at index i the turn has advanced from its player by
\* one step in the direction then in force, and one more when the card carries
\* a skip
TurnAdvanced(i, r) ==
    r.g.current_player_index =
        StepsFrom(r.g, current_player_index, IF CarriesSkip(HandCard(i)) THEN 2 ELSE 1)

\* a Draw Two played with two cards in the draw pile and cards left in the
\* hand: the next player gains exactly 2 cards, no other hand grows, and the
\* turn passes to the player two steps on
DrawTwoPlayed(i, r) ==
    (/\ HandCard(i).rank = DRAW_TWO
     /\ Len(deck.cards) >= 2
     /\ r.success
     /\ ~is_hand_empty(r.g.players[current_player_index]))
    => LET next == StepsFrom(Game, current_player_index, 1) IN
       /\ hand_size(r.g.players[next]) = hand_size(players[next]) + 2
       /\ \A q \in DOMAIN players \ {next} :
              hand_size(r.g.players[q]) <= hand_size(players[q])
       /\ r.g.current_player_index = StepsFrom(Game, current_player_index, 2)

ChoosesColor(g, player, color) ==
    play_turn(g, player, [action_input |-> [chosen_color |-> color]])

\* C13: a Wild played without a color by the current player, not as the last
\* card, succeeds, opens a choose-color pending action and leaves the current
\* player in place; when that player then gives a real color, the call succeeds,
\* the color becomes the active color, the pending action is cleared and the
\* turn advances one step from that player
C13_WildWithoutColorSuspends ==
    NormalTurn =>
        \A i \in HandIndices :
            (HandCard(i).rank = RANK_WILD /\ hand_size(players[current_player_index]) > 1)
            => \A r \in Plays(i) :
                 /\ r.success
                 /\ r.g.pending_action = CHOOSE_COLOR
                 /\ r.g.current_player_index = current_player_index
                 /\ \A color \in RealColors :
                      \A r2 \in ChoosesColor(r.g, current_player_index, color) :
                         /\ r2.success
                         /\ r2.g.current_wild_color = color
                         /\ r2.g.pending_action = NoAction
                         /\ r2.g.current_player_index =
                               StepsFrom(r2.g, current_player_index, 1)

\* C14: whenever a choose-color pending action exists, play_turn by its
\* designated chooser with any of the four real colors succeeds, makes that
\* color the active color and clears the pending action
C14_ChooserResolvesChooseColor ==
    (pending_action = CHOOSE_COLOR /\ ~game_over) =>
        \A color \in RealColors :
            \A r \in ChoosesColor(Game, ExpectedActorForPending(Game), color) :
                /\ r.success
                /\ r.g.current_wild_color = color
                /\ r.g.pending_action = NoAction

\* the results of play_turn(player, action_input={"card_to_give_idx": give,
\* "card_to_take_idx": take}) in the current game
Swaps(player, give, take) ==
    play_turn(Game, player,
              [action_input |-> [card_to_give_idx |-> give, card_to_take_idx |-> take]])

\* hand new holds the cards of hand old without one copy of card out and with
\* one more copy of card in
Exchanged(old, new, out, in) ==
    /\ Len(new) = Len(old)
    /\ \A c \in Cards :
          Count(new, c) + (IF c = out THEN 1 ELSE 0)
              = Count(old, c) + (IF c = in THEN 1 ELSE 0)

\* the swap of give and take between players actor and other has left game g:
\* the card at give is now with other, the card at take with actor, every other
\* hand is as it was, nothing is pending and the turn is one step past actor;
\* when the hand of other is empty no card has moved
SwapDone(g, actor, other, give, take) ==
    /\ g.pending_action = NoAction
    /\ g.current_player_index = StepsFrom(g, actor, 1)
    /\ g.play_direction = play_direction
    /\ IF is_hand_empty(players[other]) THEN g.players = players
       ELSE LET given == At(players[actor].hand, give)
                taken == At(players[other].hand, take)
            IN  /\ Exchanged(players[actor].hand, g.players[actor].hand, given, taken)
                /\ Exchanged(players[other].hand, g.players[other].hand, taken, given)
                /\ \A q \in DOMAIN players \ {actor, other} : g.players[q] = players[q]

\* the take indices the swap accepts: those of the hand of other, any index
\* when that hand is empty
TakeIndices(other) ==
    IF is_hand_empty(players[other]) THEN IndexInputs
    ELSE 0..(hand_size(players[other]) - 1)

\* C15: a Rank 7 played as a card that is not the last opens a swap-with-right
\* pending action and the turn stays; when its initiator then gives a valid
\* give index and a valid take index, the call succeeds, the two cards change
\* hands between the initiator and the player one step on, the pending action
\* is cleared and the turn goes to the player one step after the initiator; with
\* an empty hand one step on, no card moves and the rest is the same
C15_Rank7Swap ==
    /\ NormalTurn =>
          \A i \in HandIndices : HandCard(i).rank = SEVEN =>
              \A r \in Plays(i) :
                  (r.success /\ ~is_hand_empty(r.g.players[current_player_index])) =>
                      /\ r.g.pending_action = SWAP_CARD_RIGHT
                      /\ r.g.current_player_index = current_player_index
    /\ (pending_action = SWAP_CARD_RIGHT /\ ~game_over) =>
          LET initiator == action_data.original_player_idx
              right == StepsFrom(Game, initiator, 1)
          IN  \A give \in 0..(hand_size(players[initiator]) - 1) :
                \A take \in TakeIndices(right) :
                  \A r \in Swaps(initiator, give, take) :
                      r.success /\ SwapDone(r.g, initiator, right, give, take)

\* C15 witness: among three players the Rank 7 swap has been resolved: the
\* initiator holds a card dealt to the next player
C15_SwappedWithRight ==
    /\ Played(SEVEN)
    /\ NumPlayers(Game) = 3
    /\ result.prompt = NoAction
    /\ \E i \in DOMAIN players[0].hand : players[0].hand[i].color = GREEN
    /\ \E i \in DOMAIN players[1].hand : players[1].hand[i] = Card(RED, ZERO)
    /\ current_player_index = 1

\* the results of play_turn(player, action_input={"target_player_idx": target})
\* in the current game
Targets(player, target) ==
    play_turn(Game, player, [action_input |-> [target_player_idx |-> target]])

\* C16: while a swap-with-any is pending and no target is stored, a target named
\* by the initiator is accepted iff it is a player index other than the
\* initiator; an accepted target is stored, the pending action stays, no hand
\* changes and the turn stays, and a refused one changes nothing. Once a target
\* is stored it is not the initiator, and valid give and take indices exchange
\* the two cards with the target, clear the pending action and pass the turn to
\* the player one step after the initiator
C16_Rank0Swap ==
    (pending_action = SWAP_CARD_ANY /\ ~game_over) =>
        LET initiator == action_data.original_player_idx IN
        IF ~Has(action_data, "target_player_idx")
        THEN \A t \in IndexInputs : \A r \in Targets(initiator, t) :
                IF t \in DOMAIN players /\ t # initiator
                THEN /\ r.success
                     /\ r.g.action_data.target_player_idx = t
                     /\ r.g.pending_action = SWAP_CARD_ANY
                     /\ r.g.current_player_index = current_player_index
                     /\ r.g.players = players
                ELSE ~r.success /\ r.raised = NoError /\ r.g = Game
        ELSE LET target == action_data.target_player_idx IN
             /\ target # initiator
             /\ \A give \in 0..(hand_size(players[initiator]) - 1) :
                   \A take \in TakeIndices(target) :
                     \A r \in Swaps(initiator, give, take) :
                         r.success /\ SwapDone(r.g, initiator, target, give, take)

\* C16 witness: among three players the Rank 0 swap has been resolved with the
\* player two steps on: the initiator holds a card dealt to that player and the
\* turn is with the player one step on
C16_SwappedWithChosenTarget ==
    /\ Played(ZERO)
    /\ NumPlayers(Game) = 3
    /\ result.prompt = NoAction
    /\ \E i \in DOMAIN players[0].hand : players[0].hand[i].color = BLUE
    /\ \E i \in DOMAIN players[2].hand : players[2].hand[i] = Card(RED, SEVEN)
    /\ current_player_index = 1

\* the results of play_turn(player, action_input={"chosen_indices_from_victim":
\* indices}) in the current game
Discards(player, indices) ==
    play_turn(Game, player, [action_input |-> [chosen_indices_from_victim |-> indices]])

\* the smaller of two numbers
Min(a, b) == IF a < b THEN a ELSE b

\* C17: every accepted resolution of a discard-from-hand, whatever index list
\* the chooser gives, takes exactly min(2, hand size) cards out of the hand of
\* the victim and puts exactly those cards on the discard pile; afterwards the
\* pending action is cleared and the turn is one step past the victim
C17_DiscardTakesRequiredCount ==
    (pending_action = DISCARD_FROM_PLAYER_HAND /\ ~game_over) =>
        LET victim == action_data.victim_idx
            required == Min(2, hand_size(players[victim]))
        IN  \A indices \in ChosenIndexLists :
              \A r \in Discards(action_data.chooser_idx, indices) :
                r.success =>
                  /\ hand_size(r.g.players[victim]) = hand_size(players[victim]) - required
                  /\ Len(r.g.deck.discard_pile) = Len(deck.discard_pile) + required
                  /\ \A c \in Cards :
                        Count(players[victim].hand, c) - Count(r.g.players[victim].hand, c)
                          = Count(r.g.deck.discard_pile, c) - Count(deck.discard_pile, c)
                  /\ r.g.pending_action = NoAction
                  /\ r.g.current_player_index = StepsFrom(r.g, victim, 1)

\* the arguments of a free play of the card at index i of a hand: the index, and
\* the color when the card is wild
FreePlayArgs(hand, i, color) ==
    IF is_wild(At(hand, i))
    THEN [card_index |-> i, action_input |-> [chosen_color_for_rank_6_wild |-> color]]
    ELSE [card_index |-> i]

\* player new is player old with one more counter of the color of the card,
\* and no other counter changed; a wild card changes none
CounterAwarded(old, new, card) ==
    /\ new.solar_mana = old.solar_mana + (IF card.color = RED THEN 1 ELSE 0)
    /\ new.coins = old.coins + (IF card.color = YELLOW THEN 1 ELSE 0)
    /\ new.shuffle_counters = old.shuffle_counters + (IF card.color = GREEN THEN 1 ELSE 0)
    /\ new.lunar_mana = old.lunar_mana + (IF card.color = BLUE THEN 1 ELSE 0)

\* the free play of card by player p has left game g: the card is on top of
\* the discard pile; if it was the last card of p the game is over, p has won
\* and nothing was drawn; otherwise its color counter is awarded, p has drawn
\* one card, nothing is pending and the turn is one step past p, and one more
\* when the card carries a skip
FreePlayDone(g, p, card) ==
    /\ get_top_discard_card(g.deck) = card
    /\ IF hand_size(players[p]) = 1
       THEN g.game_over /\ g.winner = p /\ g.deck.cards = deck.cards
       ELSE /\ ~g.game_over
            /\ CounterAwarded(players[p], g.players[p], card)
            /\ Len(deck.cards) > 2 => hand_size(g.players[p]) = hand_size(players[p])
            /\ g.pending_action = NoAction
            /\ g.current_player_index =
                  StepsFrom(g, p, IF CarriesSkip(card) THEN 2 ELSE 1)

\* C18: while a play-any-then-draw-one is pending, its initiator may play any
\* card of the hand, whatever the top of the discard pile: the call succeeds
\* and the free play is carried out
C18_FreePlayOfAnyCard ==
    (pending_action = PLAY_ANY_AND_DRAW_ONE /\ ~game_over) =>
        LET p == action_data.original_player_idx IN
        \A i \in 0..(hand_size(players[p]) - 1) : \A color \in RealColors :
            \A r \in play_turn(Game, p, FreePlayArgs(players[p].hand, i, color)) :
                r.success /\ FreePlayDone(r.g, p, At(players[p].hand, i))

\* C19: a card played freely under play-any-then-draw-one, not as the last card,
\* has its own effect as in a normal play: a Red 8 makes the initiator draw 4
\* (besides the trailing draw), a Green 5 takes a card from the previous player,
\* and a Rank 7, Rank 0, Blue 3, Rank 6 or Rank 9 opens its swap, discard or
\* free play or reveals the top of the draw pile
C19_FreePlayRunsOwnEffect ==
    (pending_action = PLAY_ANY_AND_DRAW_ONE /\ ~game_over) =>
        LET p == action_data.original_player_idx
            previous == StepsFrom(Game, p, -1)
        IN
        \A i \in 0..(hand_size(players[p]) - 1) :
            LET card == At(players[p].hand, i) IN
            (~is_wild(card) /\ hand_size(players[p]) > 1) =>
                \A r \in play_turn(Game, p, [card_index |-> i]) :
                    r.success =>
                        /\ (card = Card(RED, EIGHT) /\ Len(deck.cards) >= 5)
                              => hand_size(r.g.players[p]) = hand_size(players[p]) - 1 + 4 + 1
                        /\ (card = Card(GREEN, FIVE) /\ ~is_hand_empty(players[previous]))
                              => hand_size(r.g.players[previous])
                                     = hand_size(players[previous]) - 1
                        /\ card.rank = SEVEN => r.g.pending_action = SWAP_CARD_RIGHT
                        /\ card.rank = ZERO => r.g.pending_action = SWAP_CARD_ANY
                        /\ card = Card(BLUE, THREE)
                              => r.g.pending_action = DISCARD_FROM_PLAYER_HAND
                        /\ card.rank = SIX => r.g.pending_action = PLAY_ANY_AND_DRAW_ONE
                        /\ (card.rank = NINE /\ deck.cards # <<>>)
                              => Len(r.g.deck.discard_pile) = Len(deck.discard_pile) + 2

\* the Python index of the first card of the hand equal to card
FirstIndexOf(hand, card) == (CHOOSE k \in 1..Len(hand) : hand[k] = card /\ \A j \in 1..(k - 1) : hand[j] # card) - 1

\* C20: when the card drawn by player_cannot_play_action is legal on the top of
\* the discard pile and is not wild, playing it at once leaves the states that a
\* normal play_turn of that card by that player leaves after the draw
C20_DrawnCardPlayedAsNormalPlay ==
    (pending_action = NoAction /\ ~game_over
         /\ ~has_get_out_of_jail_card(players[current_player_index])) =>
        LET p == current_player_index IN
        \A d \in player_draws_card(Game, p, 1) :
            (/\ d.drawn # <<>>
             /\ ~is_wild(d.drawn[1])
             /\ matches(d.drawn[1], get_top_discard_card(d.g.deck), d.g.current_wild_color) = True)
            =>
                {r.g : r \in PlayDrawnCard(d.g, p, d.drawn[1])}
                    = {r.g : r \in play_turn(d.g, p,
                                 [card_index |-> FirstIndexOf(d.g.players[p].hand, d.drawn[1])])}

\* the player cannot draw: the draw pile is empty and the player has no shuffle
\* token or the discard pile is empty too
CannotDraw(g, p) ==
    is_empty(g.deck) /\ (g.players[p].shuffle_counters = 0 \/ g.deck.discard_pile = <<>>)

\* the call ended with success and g, the turn one step past player p
PassedTurn(r, g, p) ==
    /\ r.success
    /\ r.raised = NoError
    /\ r.g = [g EXCEPT !.current_player_index = StepsFrom(g, p, 1)]

DrawCounts == 0..4

\* the first n cards that come off the draw pile, in draw order
TopCards(cards, n) == [k \in 1..Min(n, Len(cards)) |-> cards[Len(cards) + 1 - k]]

\* C22: player_draws_card(p, n) appends to p's hand exactly the cards it
\* returns, at most n, and changes no other hand or counter but p's shuffle
\* tokens; the discard pile is reshuffled only when the draw pile has run empty
\* and the discard pile is not empty, each reshuffle takes one shuffle token of
\* p, and the top of the discard pile stays; when p has no token, the draw stops
\* at the end of the draw pile and changes no token and no discard pile
C22_DrawPipeline ==
    \A p \in DOMAIN players :
        LET tokens == players[p].shuffle_counters IN
        /\ \A h \in _handle_draw_pile_empty(Game, p) :
              IF needs_reshuffle(deck) /\ tokens > 0
              THEN /\ h.g.players = [players EXCEPT ![p].shuffle_counters = tokens - 1]
                   /\ h.g.deck.discard_pile = <<Last(deck.discard_pile)>>
              ELSE h.g = Game
        /\ \A n \in DrawCounts : \A d \in player_draws_card(Game, p, n) :
              LET after == d.g.players[p].shuffle_counters
                  reshuffled == d.g.deck.discard_pile # deck.discard_pile \/ after # tokens
              IN
              /\ Len(d.drawn) <= n
              /\ d.g.players = [players EXCEPT ![p].hand = @ \o d.drawn,
                                               ![p].shuffle_counters = after]
              /\ after <= tokens
              /\ get_top_discard_card(d.g.deck) = get_top_discard_card(deck)
              /\ reshuffled =>
                    Len(deck.cards) < n /\ deck.discard_pile # <<>> /\ tokens > 0
              /\ tokens = 0 =>
                    /\ d.drawn = TopCards(deck.cards, n)
                    /\ d.g.deck.discard_pile = deck.discard_pile
              /\ d.g = [Game EXCEPT !.deck = d.g.deck, !.players = d.g.players]

\* C22 witness: the draw pile is empty under a discard pile of several cards,
\* and one player has a shuffle token to pay for the reshuffle while another
\* has none
C22_ReshuffleDue ==
    /\ needs_reshuffle(deck)
    /\ Len(deck.discard_pile) >= 2
    /\ \E p, q \in DOMAIN players :
          players[p].shuffle_counters > 0 /\ players[q].shuffle_counters = 0

\* C23: reshuffle_discard_pile_into_deck on an empty discard pile returns false
\* and changes nothing; otherwise it returns true, with keep_top the discard pile
\* is left with its top card alone and the draw pile holds, as a multiset, the
\* old draw pile and the old discard pile less that top card, and without
\* keep_top the discard pile is left empty and the draw pile holds both piles
C23_ReshuffleRoundTrip ==
    \A keep_top_card \in BOOLEAN :
        LET results == reshuffle_discard_pile_into_deck(deck, keep_top_card)
            kept == IF keep_top_card THEN <<Last(deck.discard_pile)>> ELSE <<>>
        IN
        /\ results # {}
        /\ \A r \in results :
              IF deck.discard_pile = <<>>
              THEN ~r.returned /\ r.deck = deck
              ELSE /\ r.returned
                   /\ r.deck.discard_pile = kept
                   /\ \A c \in PileCards :
                         Count(r.deck.cards, c) + Count(kept, c)
                             = Count(deck.cards, c) + Count(deck.discard_pile, c)

\* C23 witness: a reshuffle has left the top card alone on the discard pile and
\* a draw pile larger than any it started from
C23_DiscardMovedUnderTop ==
    /\ result.op = "reshuffle_discard_pile_into_deck"
    /\ result.success
    /\ Len(deck.discard_pile) = 1
    /\ Len(deck.cards) > MaxPile

\* the ways the current player can play the card at hand index i: with no
\* color, and for a wild card with each color
PlaysWithColor(i) ==
    Plays(i) \cup UNION {play_turn(Game, current_player_index,
                                    [card_index |-> i, chosen_color_for_wild |-> c]) :
                            c \in IF is_wild(HandCard(i)) THEN Color ELSE {}}

\* playing the card at hand index i ends the game by the duplicate rule: the
\* card repeats the top of the discard pile and only Rank 2 cards stay behind
EndsByDuplicateRule(i) ==
    LET rest == PopAt(players[current_player_index].hand, i) IN
    /\ HandCard(i) = get_top_discard_card(deck)
    /\ ~is_wild(HandCard(i))
    /\ rest # <<>>
    /\ \A k \in DOMAIN rest : rest[k].rank = TWO

\* as many cards are in the draw pile as one play can take, so that no draw of
\* the play spends a shuffle token
EnoughToDraw == Len(deck.cards) >= 6

\* the counters of new are those of old but for award more of each kind; the
\* shuffle tokens may be fewer when a draw could have spent some
CountersAre(old, new, solar, coin, token, lunar) ==
    /\ new.solar_mana = old.solar_mana + solar
    /\ new.coins = old.coins + coin
    /\ new.lunar_mana = old.lunar_mana + lunar
    /\ new.shuffle_counters <= old.shuffle_counters + token
    /\ EnoughToDraw => new.shuffle_counters = old.shuffle_counters + token

One(b) == IF b THEN 1 ELSE 0

\* C24: a successful normal play of a card that is not wild and does not end the
\* game by the duplicate rule adds 1 to the counter of the card's color for the
\* player who played it (Red solar mana, Yellow coin, Green shuffle token, Blue
\* lunar mana), and awards nothing else to any player; a play of a wild card
\* awards nothing, with any color chosen or none
C24_ResourceAward ==
    NormalTurn =>
        \A i \in HandIndices : \A r \in PlaysWithColor(i) :
            LET card == HandCard(i)
                p == current_player_index
            IN
            IF is_wild(card)
            THEN \A q \in DOMAIN players :
                    CountersAre(players[q], r.g.players[q], 0, 0, 0, 0)
            ELSE (r.success /\ ~EndsByDuplicateRule(i)) =>
                    /\ CountersAre(players[p], r.g.players[p], One(card.color = RED),
                                   One(card.color = YELLOW), One(card.color = GREEN),
                                   One(card.color = BLUE))
                    /\ \A q \in DOMAIN players \ {p} :
                          CountersAre(players[q], r.g.players[q], 0, 0, 0, 0)

\* C24 witness: the first call was a successful play of a Green card: the
\* player who made it holds one shuffle token and no other counter
C24_GreenPlayed ==
    /\ result.op = "play_turn"
    /\ result.success
    /\ calls = 1
    /\ get_top_discard_card(deck).color = GREEN
    /\ players[result.player].shuffle_counters = 1
    /\ players[result.player].coins = 0
    /\ players[result.player].solar_mana = 0
    /\ players[result.player].lunar_mana = 0

\* s is the beginning of t
IsPrefix(s, t) == Len(s) <= Len(t) /\ SubSeq(t, 1, Len(s)) = s

\* the Rank 2 cards of a hand, in hand order, and the hand without them
Twos(hand) == SelectSeq(hand, LAMBDA c : c.rank = TWO)
WithoutTwos(hand) == SelectSeq(hand, LAMBDA c : c.rank # TWO)

\* the card at hand index i is not wild and repeats the color and rank of the
\* top of the discard pile
Duplicate(i) ==
    /\ ~is_wild(HandCard(i))
    /\ HandCard(i).color = get_top_discard_card(deck).color
    /\ HandCard(i).rank = get_top_discard_card(deck).rank

\* C25: a normal play of a card that is not wild and repeats the color and rank
\* of the top of the discard pile moves every Rank 2 card of the player's hand
\* onto the discard pile, right above the played card and before the card's
\* effects; when that empties the hand the game is over, the player has won and
\* the call does nothing else. A play of a wild card, or of a card that differs
\* from the top in color or rank, discards no Rank 2 card
C25_DuplicateRule ==
    NormalTurn =>
        \A i \in HandIndices : \A r \in PlaysWithColor(i) :
            LET p == current_player_index
                rest == PopAt(players[p].hand, i)
                new == r.g.players[p].hand
            IN
            (r.success \/ r.raised = TypeError) =>
                IF Duplicate(i)
                THEN /\ IsPrefix(WithoutTwos(rest), new)
                     /\ EnoughToDraw =>
                           IsPrefix(deck.discard_pile \o <<HandCard(i)>> \o Twos(rest),
                                    r.g.deck.discard_pile)
                     /\ (Twos(rest) # <<>> /\ WithoutTwos(rest) = <<>>) =>
                           r.g = [Game EXCEPT
                                    !.players[p].hand = <<>>,
                                    !.deck.discard_pile = @ \o <<HandCard(i)>> \o rest,
                                    !.game_over = TRUE,
                                    !.winner = p]
                ELSE IsPrefix(rest, new)

\* C25 witness: the first call played a Red 5 on a Red 5; the two Rank 2 cards
\* of the hand lie above it on the discard pile and the game goes on
C25_TwosDiscarded ==
    /\ result.op = "play_turn"
    /\ result.success
    /\ calls = 1
    /\ ~game_over
    /\ deck.discard_pile = <<Card(RED, FIVE), Card(RED, FIVE), Card(RED, TWO),
                             Card(BLUE, TWO)>>

\* player p of game g holds a card that is legal on the top of the discard pile
HoldsLegalCard(g, p) ==
    \E k \in DOMAIN g.players[p].hand :
        Legal(g.players[p].hand[k], get_top_discard_card(g.deck), g.current_wild_color)

EndsTurn(revealed) == revealed.rank \in {DRAW_TWO, SKIP, REVERSE}

C27_ResolutionClearsPending ==
    (pending_action # NoAction /\ ~game_over) =>
        \A player \in DOMAIN players : \A args \in PlayTurnArgs :
            \A r \in play_turn(Game, player, args) :
                (r.success /\ r.prompt = NoAction) =>
                    r.g.pending_action = NoAction /\ r.g.action_data = EmptyDict

\* the action types that suspend a call
Suspendable ==
    {CHOOSE_COLOR, SWAP_CARD_RIGHT, SWAP_CARD_ANY, DISCARD_FROM_PLAYER_HAND,
     PLAY_ANY_AND_DRAW_ONE}

\* C28: after setup and after every call the pending action is none or one
\* of the five kinds that suspend; when one is pending its context holds the
\* index of a player as initiator and, for discard-from-hand, the indices of two
\* different players as chooser and victim; the context is empty exactly when
\* nothing is pending
C28_PendingContext ==
    /\ pending_action \in Suspendable \cup {NoAction}
    /\ pending_action # NoAction =>
          /\ Has(action_data, "original_player_idx")
          /\ action_data.original_player_idx \in DOMAIN players
    /\ pending_action = DISCARD_FROM_PLAYER_HAND =>
          /\ Has(action_data, "chooser_idx") /\ Has(action_data, "victim_idx")
          /\ action_data.chooser_idx \in DOMAIN players
          /\ action_data.victim_idx \in DOMAIN players
          /\ action_data.chooser_idx # action_data.victim_idx
    /\ action_data = EmptyDict <=> pending_action = NoAction

\* C28 witness: a Blue 3 has been played and its discard is pending, with a
\* chooser and a victim
C28_DiscardPending ==
    /\ pending_action = DISCARD_FROM_PLAYER_HAND
    /\ result.prompt = DISCARD_FROM_PLAYER_HAND
    /\ action_data.victim_idx = result.player

\* C29: store_yellow_4_get_out_of_jail(card) returns true and stores the card
\* exactly when the card is a Yellow 4 and nothing is stored, and otherwise
\* returns false and changes nothing; use_get_out_of_jail_card returns what is
\* stored, none included, leaves nothing stored and changes nothing else; a
\* use after a store that returned true returns the stored card
C29_JailCardStorage ==
    LET player == players[0]
        used == use_get_out_of_jail_card(player)
    IN
    /\ used.returned = player.get_out_of_jail_yellow_4
    /\ used.player = [player EXCEPT !.get_out_of_jail_yellow_4 = NoCard]
    /\ \A card \in Cards :
          LET stored == store_yellow_4_get_out_of_jail(player, card) IN
          IF card = Card(YELLOW, FOUR) /\ player.get_out_of_jail_yellow_4 = NoCard
          THEN /\ stored.returned
               /\ stored.player = [player EXCEPT !.get_out_of_jail_yellow_4 = card]
               /\ use_get_out_of_jail_card(stored.player).returned = card
               /\ use_get_out_of_jail_card(stored.player).player = player
          ELSE ~stored.returned /\ stored.player = player

\* C29 witness: a Yellow 4 was stored, used, and a Yellow 4 has been stored
\* again by the third call
C29_StoredAgain ==
    /\ result.op = "store_yellow_4_get_out_of_jail"
    /\ result.success
    /\ calls = 3
    /\ players[0].get_out_of_jail_yellow_4 = Card(YELLOW, FOUR)

\* how many copies of a card the standard deck holds
Copies(card) ==
    IF card.color \in RealColors /\ card.rank = ZERO THEN 1
    ELSE IF card.color \in RealColors /\ card.rank \in ONE..REVERSE THEN 2
    ELSE IF card.color = WILD /\ card.rank \in {RANK_WILD, WILD_DRAW_FOUR} THEN 4
    ELSE 0

\* C30: a freshly built deck has 108 cards in its draw pile: for each of the
\* four colors one 0, two of each rank 1 to 9 and two each of Draw Two, Skip and
\* Reverse, and four Wild and four Wild Draw Four cards, and no other card; its
\* discard pile is empty
C30_DeckComposition ==
    calls = 0 =>
        /\ Len(deck.cards) = 108
        /\ deck.discard_pile = <<>>
        /\ \A card \in [color : Color, rank : Rank] \cup SeqToSet(deck.cards) :
              Count(deck.cards, card) = Copies(card)

\* C30 witness: a fresh deck in the order it was built in, the last Wild Draw
\* Four on top and the Red 0 at the bottom
C30_FreshDeck ==
    /\ calls = 0
    /\ deck.discard_pile = <<>>
    /\ deck.cards[1] = Card(RED, ZERO)
    /\ Last(deck.cards) = Card(WILD, WILD_DRAW_FOUR)


\* ------------------------------------------------------------------------
\* UnoGame.__init__ on its own: the arguments are drawn at the start, one step
\* constructs the game
\* ------------------------------------------------------------------------
RuntimeError == "RuntimeError"

\* the exception UnoGame(player_names, initial_hand_size) raises, if any
UnoGameRaises(shuffled_cards, num_players, initial_hand_size) ==
    IF ~(2 <= num_players /\ num_players <= 4) THEN ValueError
    ELSE IF initial_hand_size <= 0 THEN ValueError
    ELSE IF Len(shuffled_cards) <= num_players * initial_hand_size THEN RuntimeError
    ELSE NoError

\* the shuffles the constructor starts from: the third card off the first is a
\* Wild, the last but one off the second is a Wild Draw Four
SetupDecks ==
    << Shuffled(<<Card(GREEN, ONE), Card(GREEN, TWO), Card(WILD, RANK_WILD), Card(RED, ONE), Card(RED, TWO), Card(RED, THREE), Card(RED, FOUR), Card(RED, FIVE), Card(YELLOW, ONE)>>, <<Card(BLUE, ONE), Card(GREEN, FOUR)>>),
       Shuffled(<<Card(GREEN, ONE), Card(GREEN, TWO), Card(GREEN, THREE), Card(RED, ONE), Card(RED, TWO), Card(RED, THREE), Card(RED, FOUR), Card(RED, FIVE), Card(YELLOW, ONE)>>, <<Card(WILD, WILD_DRAW_FOUR), Card(GREEN, FOUR)>>) >>

PlayerCounts == 1..5
HandSizes == {-1, 0, 1, 2, 53, 54}

SetupInit ==
    /\ IsGame(CHOOSE g \in GamesOneCard : TRUE)
    /\ result = NoResult
    /\ calls = 0
    /\ \E d \in DOMAIN SetupDecks, n \in PlayerCounts, h \in HandSizes :
          match = [shuffle |-> d, num_players |-> n, initial_hand_size |-> h]

SetsUp ==
    /\ calls = 0
    /\ LET raised == UnoGameRaises(SetupDecks[match.shuffle], match.num_players, match.initial_hand_size) IN
          IF raised # NoError
          THEN /\ result' = [NoResult EXCEPT !.op = "UnoGame", !.raised = raised]
               /\ UNCHANGED game_vars
          ELSE /\ result' = [NoResult EXCEPT !.op = "UnoGame", !.success = TRUE]
               /\ \E g \in UnoGame(SetupDecks[match.shuffle], match.num_players, match.initial_hand_size) :
                     /\ deck' = g.deck
                     /\ players' = g.players
                     /\ current_player_index' = g.current_player_index
                     /\ game_over' = g.game_over
                     /\ winner' = g.winner
                     /\ play_direction' = g.play_direction
                     /\ current_wild_color' = g.current_wild_color
                     /\ pending_action' = g.pending_action
                     /\ action_data' = g.action_data
    /\ calls' = calls + 1
    /\ UNCHANGED match

SetupNext == SetsUp

SetupSpec == SetupInit /\ [][SetupNext]_vars

\* ------------------------------------------------------------------------
\* Card.__init__ on its own: every step constructs one card from a color and a rank
\* ------------------------------------------------------------------------
\* a constructor that stores the color it was given
card_keeping_color(color, rank) ==
    IF color = WILD /\ rank \notin {RANK_WILD, WILD_DRAW_FOUR}
    THEN [raised |-> ValueError, card |-> NoCard, active_color |-> NoColor]
    ELSE [raised |-> NoError, card |-> Card(color, rank), active_color |-> color]

\* Card.__init__: the exception raised, the card built and its active_color
Card__init__(color, rank) ==
    IF rank \in {RANK_WILD, WILD_DRAW_FOUR}
    THEN [raised |-> NoError, card |-> Card(WILD, rank), active_color |-> WILD]
    ELSE IF color = WILD /\ rank \notin {RANK_WILD, WILD_DRAW_FOUR}
         THEN [raised |-> ValueError, card |-> NoCard, active_color |-> NoColor]
         ELSE [raised |-> NoError, card |-> Card(color, rank), active_color |-> color]

\* no card has been constructed yet
NoConstruction == [color |-> NoColor, rank |-> -1, raised |-> NoError, card |-> NoCard, active_color |-> NoColor]

CardInit ==
    /\ IsGame(CHOOSE g \in GamesOneCard : TRUE)
    /\ result = NoResult
    /\ calls = 0
    /\ match = NoConstruction

Constructs ==
    /\ calls < MaxCalls
    /\ \E color \in Color, rank \in Rank :
          LET r == Card__init__(color, rank) IN
             /\ match' = [color |-> color, rank |-> rank, raised |-> r.raised, card |-> r.card, active_color |-> r.active_color]
             /\ result' = [NoResult EXCEPT !.op = "Card", !.success = (r.raised = NoError), !.raised = r.raised]
    /\ calls' = calls + 1
    /\ UNCHANGED game_vars

CardNext == Constructs

CardSpec == CardInit /\ [][CardNext]_vars

\* C31: Card construction keeps the color/rank invariant. A wild rank built with any
\* color gets color WILD, a non-wild rank built with color WILD raises ValueError and
\* builds nothing, every other pair is stored as given, active_color starts equal to
\* the stored color, and so the card just built, like every card of the standard
\* deck, has color WILD exactly when its rank is a wild rank.
C31_CardColorRankInvariant ==
    /\ result.op = "Card" =>
          /\ is_wild([rank |-> match.rank]) =>
                match.raised = NoError /\ match.card = Card(WILD, match.rank)
          /\ (~is_wild([rank |-> match.rank]) /\ match.color = WILD) =>
                match.raised = ValueError /\ match.card = NoCard
          /\ (~is_wild([rank |-> match.rank]) /\ match.color # WILD) =>
                match.raised = NoError /\ match.card = Card(match.color, match.rank)
          /\ match.raised = NoError =>
                /\ match.active_color = match.card.color
                /\ (match.card.color = WILD) <=> is_wild(match.card)
    /\ \A card \in Cards : (card.color = WILD) <=> is_wild(card)

\* a Wild Draw Four built with color RED has come out with color WILD
C31_WildBuiltWithColor ==
    /\ result.op = "Card"
    /\ match.color = RED
    /\ match.rank = WILD_DRAW_FOUR
    /\ match.card = Card(WILD, WILD_DRAW_FOUR)
    /\ match.active_color = WILD


\* C32: while a pending action exists the turn does not move. A step that leaves a
\* pending action open changes neither the current-player index nor the play
\* direction, and player_cannot_play_action is rejected and changes nothing,
\* whoever calls it.
C32_PendingFreezesTurn ==
    [][pending_action # NoAction =>
          /\ pending_action' # NoAction =>
                /\ current_player_index' = current_player_index
                /\ play_direction' = play_direction
          /\ result'.op = "player_cannot_play_action" =>
                /\ ~result'.success
                /\ result'.raised = NoError
                /\ UNCHANGED game_vars]_vars


\* the results of play_turn(player, i, chosen_color_for_wild=color) by the current player
PlaysDirect(i, color) ==
    play_turn(Game, current_player_index, [card_index |-> i, chosen_color_for_wild |-> color])

\* the results of play_turn(player, i) followed by the choose-color answer color
PlaysDeferred(i, color) ==
    UNION {ChoosesColor(r.g, current_player_index, color) : r \in Plays(i)}

\* the Wild Draw Four played from game state old has taken full effect in game g
WildDrawFourDone(g, color) ==
    LET victim == StepsFrom(g, current_player_index, 1) IN
       /\ g.current_wild_color = color
       /\ g.pending_action = NoAction
       /\ g.current_player_index = StepsFrom(g, current_player_index, 2)
       /\ hand_size(g.players[victim]) > hand_size(players[victim])
       /\ hand_size(g.players[victim]) <= hand_size(players[victim]) + 4

\* C33: a Wild Draw Four that is not the last card, played by the current player
\* with a real color supplied in the same call, and the same card played without
\* a color and then given that color through the choose-color pending action, both
\* succeed and lead to the same game state: the color is the active color, the next
\* player holds up to 4 more cards and is skipped, and nothing is pending.
C33_WildDrawFourEquivalence ==
    NormalTurn =>
        \A i \in HandIndices :
            (HandCard(i).rank = WILD_DRAW_FOUR /\ hand_size(players[current_player_index]) > 1)
            => \A color \in RealColors :
                 /\ \A r \in PlaysDirect(i, color) \cup PlaysDeferred(i, color) :
                       r.success /\ WildDrawFourDone(r.g, color)
                 /\ {r.g : r \in PlaysDirect(i, color)} = {r.g : r \in PlaysDeferred(i, color)}


\* C34: the active wild color is always either unset or one of RED, YELLOW, GREEN,
\* BLUE; no sequence of calls sets it to the WILD marker.
C34_ActiveColorIsRealColor ==
    current_wild_color \in RealColors \cup {NoColor}


\* C35: the active wild color is set only while the top of the discard pile is a
\* wild card: in every reachable state with an active wild color the top card of
\* the discard pile is a Wild or a Wild Draw Four.
C35_ActiveColorOnlyOverWildTop ==
    current_wild_color # NoColor =>
        /\ get_top_discard_card(deck) # NoCard
        /\ is_wild(get_top_discard_card(deck))


\* C36: game-over and winner are consistent in every reachable state: the game is
\* over exactly when a winner is set, and the winner of a game that is over holds
\* no card.
C36_GameOverAndWinnerAgree ==
    /\ game_over <=> winner # -1
    /\ game_over => /\ winner \in DOMAIN players
                    /\ players[winner].hand = <<>>

\* a player has drawn a card, played it at once as the last card and won
C36_WonWithDrawnCard ==
    /\ result.op = "player_cannot_play_action"
    /\ result.success
    /\ game_over
    /\ winner = result.player
    /\ players[winner].hand = <<>>


\* C37: setup postcondition. A construction with 2 to 4 players and a positive
\* hand size that the deck can serve succeeds: every player holds exactly the
\* initial hand size, the discard pile holds exactly one card, which is not a Wild
\* Draw Four, the active wild color is set (to a real color) exactly when that card
\* is a Wild, the current-player index is in range, the direction is +1, the game
\* is not over and nothing is pending. A player count outside 2..4 or a hand size
\* <= 0 raises ValueError.
C37_SetupPostcondition ==
    result.op = "UnoGame" =>
        LET n == match.num_players
            h == match.initial_hand_size
        IN  /\ (n \notin 2..4 \/ h <= 0) <=> result.raised = ValueError
            /\ (n \in 2..4 /\ h > 0 /\ n * h < Len(create_standard_deck)) =>
                  /\ result.success
                  /\ DOMAIN players = 0..(n - 1)
                  /\ \A p \in DOMAIN players : hand_size(players[p]) = h
                  /\ Len(deck.discard_pile) = 1
                  /\ get_top_discard_card(deck).rank # WILD_DRAW_FOUR
                  /\ (current_wild_color # NoColor) <=> is_wild(get_top_discard_card(deck))
                  /\ current_wild_color \in RealColors \cup {NoColor}
                  /\ current_player_index \in 0..(n - 1)
                  /\ play_direction = 1
                  /\ ~game_over
                  /\ winner = -1
                  /\ pending_action = NoAction
                  /\ action_data = EmptyDict
                  /\ TotalCards = Len(create_standard_deck)

\* the first card turned up was a Wild Draw Four: it went back into the draw pile
\* and another card started the discard pile
C37_WildDrawFourPutBack ==
    /\ result.op = "UnoGame"
    /\ result.success
    /\ match.shuffle = 2
    /\ match.initial_hand_size = 53
    /\ deck.cards = <<Card(WILD, WILD_DRAW_FOUR)>>
    /\ deck.discard_pile = <<Card(GREEN, FOUR)>>


\* C38: after setup the discard pile is never empty: every reachable state has a
\* top-of-discard card, through all plays, forced discards and reshuffles.
C38_DiscardPileNeverEmpty ==
    /\ deck.discard_pile # <<>>
    /\ get_top_discard_card(deck) # NoCard

\* in a game that began with one card in the draw pile, a draw from the empty
\* draw pile has reshuffled the discard pile: cards are back in the draw pile and
\* the discard pile has kept its top card
C38_ReshuffledUnderTop ==
    /\ result.op = "player_cannot_play_action"
    /\ result.success
    /\ hand_size(players[0]) > 50
    /\ deck.cards # <<>>
    /\ deck.discard_pile # <<>>


\* the player one step against the current direction from the current player
PreviousPlayer ==
    (current_player_index - play_direction + NumPlayers(Game)) % NumPlayers(Game)

\* the hand of the current player once the card at index i has been played
\* (with the Rank 2 cards gone when the play was a duplicate of the top card)
HandAfterPlay(i) ==
    LET rest == PopAt(players[current_player_index].hand, i) IN
       IF Duplicate(i) THEN WithoutTwos(rest) ELSE rest

\* game g differs from the current game by one card that went from the hand of
\* the previous player to the end of the hand of the current player, who played
\* the card at index i
OneCardTaken(g, i) ==
    \E k \in 0..(hand_size(players[PreviousPlayer]) - 1) :
        /\ g.players[PreviousPlayer].hand = PopAt(players[PreviousPlayer].hand, k)
        /\ g.players[current_player_index].hand
              = Append(HandAfterPlay(i), At(players[PreviousPlayer].hand, k))

\* C39: a Green 5 played by the current player as a card that is not the last
\* moves exactly one card from the hand of the previous player (one step against
\* the current direction) to the hand of the acting player; when that hand is
\* empty nothing moves; either way the call succeeds, every other hand is as it was,
\* no pending action is opened and the turn advances one step from the acting player.
C39_GreenFiveTakesFromPrevious ==
    NormalTurn =>
        \A i \in HandIndices :
            (/\ HandCard(i) = Card(GREEN, FIVE)
             /\ HandAfterPlay(i) # <<>>
             /\ get_top_discard_card(deck) # NoCard
             /\ Legal(HandCard(i), get_top_discard_card(deck), current_wild_color))
            => \A r \in Plays(i) :
                 /\ Completed(r)
                 /\ r.g.current_player_index = StepsFrom(Game, current_player_index, 1)
                 /\ r.g.play_direction = play_direction
                 /\ \A q \in DOMAIN players \ {PreviousPlayer, current_player_index} :
                       r.g.players[q].hand = players[q].hand
                 /\ IF is_hand_empty(players[PreviousPlayer])
                    THEN /\ r.g.players[PreviousPlayer].hand = <<>>
                         /\ r.g.players[current_player_index].hand = HandAfterPlay(i)
                    ELSE OneCardTaken(r.g, i)

\* three players, direction reversed: player 2 has played a Green 5 and has taken
\* the one card of player 0, the player one step against the direction; player 1,
\* who moves next, has lost nothing
C39_TakenFromPrevious ==
    /\ result.op = "play_turn"
    /\ result.success
    /\ result.player = 2
    /\ play_direction = -1
    /\ get_top_discard_card(deck) = Card(GREEN, FIVE)
    /\ pending_action = NoAction
    /\ ~game_over
    /\ current_player_index = 1
    /\ players[0].hand = <<>>
    /\ players[1].hand = <<Card(YELLOW, ONE), Card(YELLOW, TWO)>>
    /\ players[2].hand = <<Card(BLUE, TWO), Card(GREEN, FIVE)>>

\* a Blue 3 has emptied the hand of player 0, then player 1 has played a Green 5:
\* there was nothing to take, and player 1 holds the two cards left of its three
C39_NothingToTake ==
    /\ result.op = "play_turn"
    /\ result.success
    /\ result.player = 1
    /\ get_top_discard_card(deck) = Card(GREEN, FIVE)
    /\ Len(deck.discard_pile) >= 3
    /\ deck.discard_pile[Len(deck.discard_pile) - 1] = Card(GREEN, ONE)
    /\ pending_action = NoAction
    /\ ~game_over
    /\ is_hand_empty(players[0])
    /\ players[1].hand = <<Card(YELLOW, TWO), Card(YELLOW, THREE)>>


\* no counter of any player is negative
CountersNotNegative ==
    \A p \in DOMAIN players :
        /\ players[p].coins >= 0
        /\ players[p].shuffle_counters >= 0
        /\ players[p].lunar_mana >= 0
        /\ players[p].solar_mana >= 0

\* _handle_draw_pile_empty takes a shuffle token of the drawing player, exactly
\* one, only when that player holds one and the draw pile is empty while the
\* discard pile is not; it changes no other counter
TokenTakenOnlyForReshuffle ==
    \A p \in DOMAIN players : \A h \in _handle_draw_pile_empty(Game, p) :
        /\ \A q \in DOMAIN players :
              /\ h.g.players[q].coins = players[q].coins
              /\ h.g.players[q].lunar_mana = players[q].lunar_mana
              /\ h.g.players[q].solar_mana = players[q].solar_mana
              /\ q # p => h.g.players[q].shuffle_counters = players[q].shuffle_counters
        /\ IF players[p].shuffle_counters >= 1 /\ is_empty(deck) /\ deck.discard_pile # <<>>
           THEN h.g.players[p].shuffle_counters = players[p].shuffle_counters - 1
           ELSE h.g.players[p].shuffle_counters = players[p].shuffle_counters

\* C40: resource counters never go negative. No call of the turn engine lowers the
\* coin, lunar mana or solar mana of any player; a shuffle token goes only in
\* _handle_draw_pile_empty, one at a time, when the drawing player holds at least
\* one and the draw pile is empty while the discard pile is not, so a call lowers
\* the shuffle tokens of one player only and never below zero.
C40_CountersNeverNegative ==
    /\ [](CountersNotNegative /\ TokenTakenOnlyForReshuffle)
    /\ [][\A p \in DOMAIN players :
             /\ players'[p].coins >= players[p].coins
             /\ players'[p].lunar_mana >= players[p].lunar_mana
             /\ players'[p].solar_mana >= players[p].solar_mana
             /\ players'[p].shuffle_counters < players[p].shuffle_counters =>
                   /\ players[p].shuffle_counters >= 1
                   /\ \A q \in DOMAIN players \ {p} :
                         players'[q].shuffle_counters >= players[q].shuffle_counters]_vars

\* a player has paid its only shuffle token for a reshuffle while the other
\* player still holds the token its Green card earned
C40_TokenSpent ==
    /\ result.op = "player_cannot_play_action"
    /\ result.success
    /\ players[result.player].shuffle_counters = 0
    /\ \E q \in DOMAIN players : players[q].shuffle_counters = 1
    /\ Len(deck.discard_pile) = 1
    /\ Len(deck.cards) = 1
    /\ calls = 3

=============================================================================
